---- MODULE Spec2Model ----
(***************************************************************************)
(* Service-Intello (src/app.py): the Dataset of a workbook, its composite  *)
(* index, the filter engine, the filter-option resolver and the HTTP       *)
(* handlers built on them.                                                 *)
(*                                                                         *)
(* Text is a tuple of one-character strings (<<"A","p","r">> is "Apr"), so *)
(* that strip, lower and split are computed character by character.        *)
(* Python's None is the value None below, which no text equals.  A float   *)
(* is Float(n), n counting ten-thousandths (Float(850000) is 85.0).        *)
(***************************************************************************)
EXTENDS Integers, Sequences, FiniteSets, TLC

VARIABLES
    path_exists,       \* os.path.exists(excel_path)
    workbook,          \* the file at excel_path, where it is kept
    pc,                \* "new" before Dataset.__init__ ran, "ready" after
    data_rows,         \* Dataset.data_rows
    available_months,  \* Dataset.available_months
    load_error,        \* Dataset.load_error
    index,             \* Dataset.index: key -> list of records
    div_by_month,      \* Dataset.div_by_month: month key -> set of texts
    sa_by_month_div,   \* Dataset.sa_by_month_div: (month, div) key -> set
    call,              \* the last query made and what it returned
    pinned,            \* an apply_filters call kept to compare a repeat with
    ui                 \* the browser page: its filter controls and rows

dsvars == <<data_rows, available_months, load_error, index, div_by_month,
            sa_by_month_div>>
vars == <<path_exists, workbook, pc, data_rows, available_months,
          load_error, index, div_by_month, sa_by_month_div, call, pinned,
          ui>>

----------------------------------------------------------------------------
(* Values *)

None == <<"None">>
Float(n) == <<"f", n>>
Val(x) == x[2]

\* Python truthiness of an optional text: None and "" are falsy.
Truthy(x) == x # None /\ x # <<>>

\* `x or dflt`
Or(x, dflt) == IF Truthy(x) THEN x ELSE dflt

----------------------------------------------------------------------------
(* Characters and text *)

UpperCase == <<"A","B","C","D","E","F","G","H","I","J","K","L","M",
               "N","O","P","Q","R","S","T","U","V","W","X","Y","Z">>
LowerCase == <<"a","b","c","d","e","f","g","h","i","j","k","l","m",
               "n","o","p","q","r","s","t","u","v","w","x","y","z">>

\* Code point of a character (ASCII).
ord(c) ==
    IF \E i \in 1..Len(UpperCase) : UpperCase[i] = c
    THEN 64 + (CHOOSE i \in 1..Len(UpperCase) : UpperCase[i] = c)
    ELSE IF \E i \in 1..Len(LowerCase) : LowerCase[i] = c
    THEN 96 + (CHOOSE i \in 1..Len(LowerCase) : LowerCase[i] = c)
    ELSE CASE c = " " -> 32
           [] c = "," -> 44
           [] c = "-" -> 45
           [] c = "." -> 46
           [] c = "/" -> 47
           [] c = "_" -> 95
           [] OTHER -> 127

\* The lowercase letter of each capital
ToLower ==
    [c \in {UpperCase[i] : i \in 1..Len(UpperCase)} |->
        LowerCase[CHOOSE i \in 1..Len(UpperCase) : UpperCase[i] = c]]

\* str.lower()
lower(t) ==
    [i \in 1..Len(t) |-> IF t[i] \in DOMAIN ToLower THEN ToLower[t[i]] ELSE t[i]]

\* str.strip(): the blank is the one whitespace character of the texts
RECURSIVE lstrip(_)
lstrip(t) ==
    IF t # <<>> /\ Head(t) = " " THEN lstrip(Tail(t)) ELSE t

RECURSIVE rstrip(_)
rstrip(t) ==
    IF t # <<>> /\ t[Len(t)] = " " THEN rstrip(SubSeq(t, 1, Len(t) - 1))
    ELSE t

\* str.strip()
strip(t) == rstrip(lstrip(t))

\* str.split(sep) for a one-character separator: a list of Len(seps)+1 parts.
RECURSIVE split_from(_, _, _)
split_from(t, sep, cur) ==
    IF t = <<>> THEN <<cur>>
    ELSE IF Head(t) = sep THEN <<cur>> \o split_from(Tail(t), sep, <<>>)
    ELSE split_from(Tail(t), sep, Append(cur, Head(t)))

split(t, sep) == split_from(t, sep, <<>>)

\* a < b for texts: lexicographic by code point.
RECURSIVE StrLess(_, _)
StrLess(a, b) ==
    IF b = <<>> THEN FALSE
    ELSE IF a = <<>> THEN TRUE
    ELSE IF ord(Head(a)) # ord(Head(b)) THEN ord(Head(a)) < ord(Head(b))
    ELSE StrLess(Tail(a), Tail(b))

\* sorted(set_of_texts)
RECURSIVE sorted(_)
sorted(S) ==
    IF S = {} THEN <<>>
    ELSE LET m == CHOOSE x \in S : \A y \in S \ {x} : StrLess(x, y)
         IN  <<m>> \o sorted(S \ {m})

Range(f) == {f[i] : i \in DOMAIN f}

\* [f(x) for x in seq if p(x)] with p given as a set of admitted values
RECURSIVE SelectSeq2(_, _)
SelectSeq2(seq, S) ==
    IF seq = <<>> THEN <<>>
    ELSE IF Head(seq) \in S THEN <<Head(seq)>> \o SelectSeq2(Tail(seq), S)
    ELSE SelectSeq2(Tail(seq), S)

----------------------------------------------------------------------------
(* Program constants *)

Apr == <<"A","p","r">>
May == <<"M","a","y">>

MONTH_ORDER ==
    <<Apr, May, <<"J","u","n">>, <<"J","u","l">>, <<"A","u","g">>, <<"S","e","p">>, <<"O","c","t">>, <<"N","o","v">>,
      <<"D","e","c">>, <<"J","a","n">>, <<"F","e","b">>, <<"M","a","r">>>>

All == <<"A","l","l">>
all == <<"a","l","l">>
NONE_SENTINEL == <<"_","_","N","O","N","E","_","_">>

\* key_norm without lower(): a variant for the check of C4
key_norm_nolower(x) == strip(Or(x, All))

\* (x or "All").strip().lower()
key_norm(x) == lower(strip(Or(x, All)))

----------------------------------------------------------------------------
(* Numbers: Float(n) holds n ten-thousandths *)

Unit == 100 * 100

Abs(n) == IF n < 0 THEN 0 - n ELSE n

RECURSIVE Gcd(_, _)
Gcd(a, b) == IF b = 0 THEN a ELSE Gcd(b, a % b)

\* num / den rounded to the nearest integer, ties to the even one.
RoundDiv(num, den) ==
    LET q == num \div den
        r == num % den
    IN  IF 2 * r < den THEN q
        ELSE IF 2 * r > den THEN q + 1
        ELSE IF q % 2 = 0 THEN q ELSE q + 1

\* round(float(v), 2)
r2(v) == IF v = None THEN None ELSE Float(100 * RoundDiv(Val(v), 100))

\* A quotient of two floats, kept exact as a fraction in lowest terms.
Quot(num, den) ==
    LET g == Gcd(Abs(Val(num)), Abs(Val(den)))
    IN  <<"q", Val(num) \div g, Val(den) \div g>>

\* safe_div answering 0 for a zero denominator: a variant for the check of
\* C13
safe_div_zero_den(num, den) ==
    IF num = None \/ den = None THEN None
    ELSE IF Val(den) = 0 THEN <<"q", 0, 1>>
    ELSE Quot(num, den)

safe_div(num, den) ==
    IF num = None \/ den = None \/ (den # None /\ Val(den) = 0) THEN None
    ELSE Quot(num, den)

\* r2(ratio * k) for an exact ratio and a whole factor k
r2_scaled(ratio, k) ==
    IF ratio[3] > 0
    THEN Float(100 * RoundDiv(ratio[2] * k * 100, ratio[3]))
    ELSE Float(100 * RoundDiv((0 - ratio[2]) * k * 100, 0 - ratio[3]))

----------------------------------------------------------------------------
(* Cells of a worksheet, as openpyxl hands them to the loader *)

\* kind: "none" (None), "bool", "int", "float" or "str".  text is the text
\* of a "str" cell; num is the number of an "int" or "float" cell in
\* ten-thousandths, and 1 or 0 for the "bool" cells True and False.
NoneCell == [kind |-> "none", text |-> <<>>, num |-> 0]
BoolCell(b) == [kind |-> "bool", text |-> <<>>, num |-> IF b THEN 1 ELSE 0]
IntCell(n) == [kind |-> "int", text |-> <<>>, num |-> n * Unit]
FloatCell(n) == [kind |-> "float", text |-> <<>>, num |-> n]
StrCell(t) == [kind |-> "str", text |-> t, num |-> 0]

Digit == <<"0","1","2","3","4","5","6","7","8","9">>
DigitVal(c) == (CHOOSE i \in 1..Len(Digit) : Digit[i] = c) - 1

\* The decimal digits of a natural number
RECURSIVE digits(_)
digits(n) ==
    IF n < 10 THEN <<Digit[n + 1]>>
    ELSE digits(n \div 10) \o <<Digit[(n % 10) + 1]>>

\* The digits of the fraction f / Unit without trailing zeros, one at least
RECURSIVE frac_digits(_, _)
frac_digits(f, scale) ==
    IF scale = 1 THEN <<>>
    ELSE LET d == f \div (scale \div 10)
             rest == f % (scale \div 10)
         IN  IF rest = 0 THEN <<Digit[d + 1]>>
             ELSE <<Digit[d + 1]>> \o frac_digits(rest, scale \div 10)

\* str(v) of a cell that is not None
str(v) ==
    CASE v.kind = "str" -> v.text
      [] v.kind = "bool" -> IF v.num = 1 THEN <<"T","r","u","e">> ELSE <<"F","a","l","s","e">>
      [] v.kind = "int" ->
            (IF v.num < 0 THEN <<"-">> ELSE <<>>)
            \o digits(Abs(v.num) \div Unit)
      [] v.kind = "float" ->
            (IF v.num < 0 THEN <<"-">> ELSE <<>>)
            \o digits(Abs(v.num) \div Unit) \o <<".">>
            \o frac_digits(Abs(v.num) % Unit, Unit)

s(v) ==
    IF v.kind = "none" THEN None
    ELSE IF strip(str(v)) \in {<<>>, <<"-">>} THEN None
    ELSE strip(str(v))

\* t.replace(c, "")
RECURSIVE remove(_, _)
remove(t, c) ==
    IF t = <<>> THEN <<>>
    ELSE IF Head(t) = c THEN remove(Tail(t), c)
    ELSE <<Head(t)>> \o remove(Tail(t), c)

\* The value of a run of digits, and of the digits behind the point in
\* ten-thousandths (digits behind the fourth are dropped).
RECURSIVE int_value(_, _)
int_value(t, acc) ==
    IF t = <<>> THEN acc ELSE int_value(Tail(t), 10 * acc + DigitVal(Head(t)))

RECURSIVE frac_value(_, _)
frac_value(t, scale) ==
    IF t = <<>> \/ scale = 1 THEN 0
    ELSE DigitVal(Head(t)) * (scale \div 10)
         + frac_value(Tail(t), scale \div 10)

\* float() of the digits before and behind the point: None stands for the
\* ValueError.
float_of_parts(parts) ==
    IF /\ Len(parts) \in {1, 2}
       /\ \A i \in 1..Len(parts) :
             \A j \in 1..Len(parts[i]) : parts[i][j] \in Range(Digit)
       /\ \E i \in 1..Len(parts) : parts[i] # <<>>
    THEN Float(int_value(parts[1], 0) * Unit
               + (IF Len(parts) = 2 THEN frac_value(parts[2], Unit) ELSE 0))
    ELSE None

\* float() of a text without blanks around it
float_of_stripped(u) ==
    IF u # <<>> /\ Head(u) = "-"
    THEN (IF float_of_parts(split(Tail(u), ".")) = None THEN None
          ELSE Float(0 - Val(float_of_parts(split(Tail(u), ".")))))
    ELSE IF u # <<>> /\ Head(u) = "+"
    THEN float_of_parts(split(Tail(u), "."))
    ELSE float_of_parts(split(u, "."))

\* float(t) of a text: None stands for the ValueError.  The texts read are
\* an optional sign, digits and at most one point; float() takes no other
\* text made of letters, blanks inside, "%" or "/".
float(t) == float_of_stripped(strip(t))

\* to_float of a text from which "," and the rupee sign were taken
to_float_of_clean(t) ==
    IF t # <<>> /\ t[Len(t)] = "%"
    THEN float(strip(SubSeq(t, 1, Len(t) - 1)))
    ELSE float(t)

\* to_float of a stripped text; "Rs" is the character U+20B9, the rupee sign
to_float_of_text(t) ==
    IF t = <<>> THEN None
    ELSE IF lower(t) \in {<<"n","a">>, <<"n","/","a">>, <<"n","o","n","e">>, <<"-">>} THEN None
    ELSE to_float_of_clean(strip(remove(remove(t, ","), "Rs")))

to_float(v) ==
    IF v.kind = "none" THEN None
    ELSE IF v.kind = "bool" THEN None
    ELSE IF v.kind \in {"int", "float"} THEN Float(v.num)
    ELSE to_float_of_text(strip(str(v)))

----------------------------------------------------------------------------
(* Headers and sheet names *)

\* t.split(): the words between runs of blanks
RECURSIVE words_from(_, _)
words_from(t, cur) ==
    IF t = <<>> THEN (IF cur = <<>> THEN <<>> ELSE <<cur>>)
    ELSE IF Head(t) = " "
         THEN (IF cur = <<>> THEN <<>> ELSE <<cur>>)
              \o words_from(Tail(t), <<>>)
         ELSE words_from(Tail(t), Append(cur, Head(t)))

\* " ".join(words)
RECURSIVE join(_)
join(words) ==
    IF words = <<>> THEN <<>>
    ELSE IF Len(words) = 1 THEN words[1]
    ELSE words[1] \o <<" ">> \o join(Tail(words))

\* The header of a cell: its stripped text with single blanks between the
\* words, and "Division" for "diviosion"
normalize_header(h) ==
    IF h.kind = "none" THEN <<>>
    ELSE IF strip(str(h)) = <<>> THEN <<>>
    ELSE IF lower(join(words_from(strip(str(h)), <<>>))) = <<"d","i","v","i","o","s","i","o","n">>
    THEN <<"D","i","v","i","s","i","o","n">>
    ELSE join(words_from(strip(str(h)), <<>>))

\* The first m of MONTH_ORDER, from position i on, with m.lower() == key
RECURSIVE month_of_key(_, _)
month_of_key(key, i) ==
    IF i > Len(MONTH_ORDER) THEN None
    ELSE IF lower(MONTH_ORDER[i]) = key THEN MONTH_ORDER[i]
    ELSE month_of_key(key, i + 1)

\* detect_month on the name as it is, blanks in front included: a variant
\* for the check of C14
detect_month_unstripped(sheet_name) ==
    IF sheet_name = <<>> THEN None
    ELSE month_of_key(
            lower(SubSeq(sheet_name, 1,
                         IF Len(sheet_name) < 3 THEN Len(sheet_name) ELSE 3)),
            1)

detect_month(sheet_name) ==
    IF sheet_name = <<>> THEN None
    ELSE month_of_key(
            lower(SubSeq(strip(sheet_name), 1,
                         IF Len(strip(sheet_name)) < 3
                         THEN Len(strip(sheet_name)) ELSE 3)),
            1)

\* hmap[k] = i on a dict kept as the list of its items in insertion order:
\* a key already there keeps its place and takes the new value.
hmap_set(hmap, k, i) ==
    IF \E j \in 1..Len(hmap) : hmap[j].k = k
    THEN [j \in 1..Len(hmap) |->
             IF hmap[j].k = k THEN [k |-> k, idx |-> i] ELSE hmap[j]]
    ELSE Append(hmap, [k |-> k, idx |-> i])

\* for i, h in enumerate(header_row), from position i on (i counts from 0)
RECURSIVE build_header_map_from(_, _, _)
build_header_map_from(header_row, i, hmap) ==
    IF i >= Len(header_row) THEN hmap
    ELSE IF normalize_header(header_row[i + 1]) = <<>>
    THEN build_header_map_from(header_row, i + 1, hmap)
    ELSE build_header_map_from(header_row, i + 1,
            hmap_set(hmap, lower(normalize_header(header_row[i + 1])), i))

build_header_map(header_row) == build_header_map_from(header_row, 0, <<>>)

\* t in kk
contains(kk, t) ==
    \E i \in 0..(Len(kk) - Len(t)) : \A j \in 1..Len(t) : kk[i + j] = t[j]

\* No column: the None that the find_col_index functions return
NoCol == 0 - 1

\* find_col_index_any answering the place of the item in hmap, counted
\* from 0, in place of its idx: a variant for the check of C15
find_col_index_any_place(hmap, tokens) ==
    LET hits == {i \in 1..Len(hmap) :
                    \E j \in 1..Len(tokens) :
                        contains(lower(hmap[i].k), tokens[j])}
    IN  IF hits = {} THEN NoCol
        ELSE (CHOOSE i \in hits : \A j \in hits : i <= j) - 1

\* The idx of the first item of hmap whose key holds one of the tokens
RECURSIVE find_col_index_any(_, _)
find_col_index_any(hmap, tokens) ==
    IF hmap = <<>> THEN NoCol
    ELSE IF \E j \in 1..Len(tokens) : contains(lower(hmap[1].k), tokens[j])
    THEN hmap[1].idx
    ELSE find_col_index_any(Tail(hmap), tokens)

\* The column of the first token group that find_col_index_any finds
RECURSIVE find_col_index_priority(_, _)
find_col_index_priority(hmap, token_groups) ==
    IF token_groups = <<>> THEN NoCol
    ELSE IF find_col_index_any(hmap, Head(token_groups)) # NoCol
    THEN find_col_index_any(hmap, Head(token_groups))
    ELSE find_col_index_priority(hmap, Tail(token_groups))

\* The token groups of each column variable of the loader, in the order of
\* the code
ColumnTokens ==
    [c_mile |->
        << <<<<"m","i","l","e"," ","i","d">>>>, <<<<"m","i","l","e","i","d">>>>, <<<<"m","i","l","e">>>>,
        <<<<"m","i","l","e","_","i","d">>>> >>,
     c_links |->
        << <<<<"l","i","n","k","s"," ","t","r","i","g","g","e","r","e","d">>>>, <<<<"l","i","n","k","s"," ","t","r","i","g">>>>,
        <<<<"l","i","n","k"," ","t","r","i","g","g","e","r","e","d">>>>, <<<<"l","i","n","k","s">>>>, <<<<"t","r","i","g","g","e","r">>>> >>,
     c_resp |->
        << <<<<"t","o","t","a","l"," ","r","e","s","p","o","n","s","e">>>>, <<<<"r","e","s","p","o","n","s","e","s">>>>,
        <<<<"r","e","s","p","o","n","s","e">>>>, <<<<"r","e","s","p","o","n">>>>, <<<<"r","e","p","l","y">>>> >>,
     c_nps |->
        << <<<<"n","p","s">>>>, <<<<"n","p"," ","s","c","o","r","e">>>>, <<<<"n","p">>>> >>,
     c_concern |->
        << <<<<"c","o","n","c","e","r","n"," ","c","o","u","n","t">>>>, <<<<"c","o","n","c","e","r","n">>>>,
        <<<<"c","o","m","p","l","a","i","n","t">>>> >>,
     c_cc |->
        << <<<<"c","c","/","1","0","0","0">>>>, <<<<"c","c","/","1","0">>>>, <<<<"c","c"," ","p","e","r">>>>,
        <<<<"c","c"," ","p","e","r"," ","1","0","0","0">>>> >>,
     c_osat |->
        << <<<<"o","s","a","t">>>>, <<<<"o","v","e","r","a","l","l"," ","s","a","t","i","s","f","a","c","t","i","o","n">>>>,
        <<<<"o","v","e","r","a","l","l"," ","s","a","t">>>>, <<<<"o","s","a","t","%">>>>, <<<<"o","s">>>> >>,
     c_sa |->
        << <<<<"s","a"," ","n","a","m","e">>>>, <<<<"s","e","r","v","i","c","e"," ","a","d","v","i","s","o","r"," ","n","a","m","e">>>>,
        <<<<"s","e","r","v","i","c","e"," ","a","d","v","i","s","o","r">>>>, <<<<"a","d","v","i","s","o","r"," ","n","a","m","e">>>>,
        <<<<"a","d","v","i","s","o","r">>>>, <<<<"s","a"," "," ">>>>, <<<<"s","a","_">>>>, <<<<"s","a">>>> >>,
     c_div |->
        << <<<<"d","i","v","i","s","i","o","n"," ","n","a","m","e">>>>, <<<<"d","i","v","i","s","i","o","n">>>>, <<<<"d","i","v","i","o","s","i","o","n">>>>,
        <<<<"d","i","v","n">>>>, <<<<"d","i","v",".">>>>, <<<<"d","i","v"," ">>>>, <<<<"d","i","v">>>>,
        <<<<"b","r","a","n","c","h"," ","n","a","m","e">>>>, <<<<"b","r","a","n","c","h">>>>, <<<<"o","u","t","l","e","t">>>>,
        <<<<"w","o","r","k","s","h","o","p">>>>, <<<<"d","e","a","l","e","r"," ","l","o","c","a","t","i","o","n">>>>,
        <<<<"l","o","c","a","t","i","o","n">>>> >>]

\* The columns the loader resolves on a sheet with the given header row
resolve_columns(header) ==
    [c \in DOMAIN ColumnTokens |->
        find_col_index_priority(build_header_map(header), ColumnTokens[c])]

\* cell(row, idx)
cell(row, idx) ==
    IF idx = NoCol THEN NoneCell
    ELSE IF idx >= Len(row) THEN NoneCell
    ELSE row[idx + 1]

----------------------------------------------------------------------------
(* Dataset._load_excel *)

\* "Excel file not found: "
NotFoundPrefix == <<"E","x","c","e","l"," ","f","i","l","e"," ",
                    "n","o","t"," ","f","o","u","n","d",":"," ">>

\* osat_of scaling the values of [0, 1) only: a variant for the check of
\* C12
osat_of_below_one(osat) ==
    IF osat # None /\ 0 <= Val(osat) /\ Val(osat) < Unit
    THEN r2(Float(Val(osat) * 100))
    ELSE r2(osat)

\* r2(osat * 100.0) for a value of [0, 1], r2(osat) for another
osat_of(osat) ==
    IF osat # None /\ 0 <= Val(osat) /\ Val(osat) <= Unit
    THEN r2(Float(Val(osat) * 100))
    ELSE r2(osat)

\* rec, txt being the s() and num the to_float() of the row's cells
record_of(month, txt, num) ==
    [Month |-> month,
     SA_Name |-> txt["c_sa"],
     Division |-> txt["c_div"],
     Mile_id |-> txt["c_mile"],
     Links_Triggered |-> num["c_links"],
     Response |-> num["c_resp"],
     NPS |-> num["c_nps"],
     Pct_of_Response |->
         IF safe_div(num["c_resp"], num["c_links"]) # None
         THEN r2_scaled(safe_div(num["c_resp"], num["c_links"]), 100)
         ELSE None,
     Concern_Count |-> num["c_concern"],
     CC_1000 |-> num["c_cc"],
     OSAT |-> osat_of(num["c_osat"])]

\* The record made of one data row of a month sheet, cols being the columns
\* resolved from the sheet's header.
make_record(month, cols, row) ==
    record_of(month,
              [c \in {"c_sa", "c_div", "c_mile"} |-> s(cell(row, cols[c]))],
              [c \in {"c_links", "c_resp", "c_nps", "c_concern", "c_cc",
                      "c_osat"} |-> to_float(cell(row, cols[c]))])

\* keep_record dropping a record only when Concern Count is absent as
\* well: a variant for the check of C22
keep_record_with_concern(all_rows, rec) ==
    IF /\ ~Truthy(rec.SA_Name)
       /\ ~Truthy(rec.Division)
       /\ rec.Links_Triggered = None
       /\ rec.Response = None
       /\ rec.NPS = None
       /\ rec.OSAT = None
       /\ rec.Concern_Count = None
    THEN all_rows
    ELSE Append(all_rows, [rid |-> Len(all_rows) + 1] @@ rec)

\* all_rows.append(rec) unless rec is noise: no advisor, no division, none
\* of the metrics.  Each record is a new object: rid stands for its
\* identity, id(r).
keep_record(all_rows, rec) ==
    IF /\ ~Truthy(rec.SA_Name)
       /\ ~Truthy(rec.Division)
       /\ rec.Links_Triggered = None
       /\ rec.Response = None
       /\ rec.NPS = None
       /\ rec.OSAT = None
    THEN all_rows
    ELSE Append(all_rows, [rid |-> Len(all_rows) + 1] @@ rec)

\* The data rows of one sheet, appended to all_rows.  An empty row is
\* passed over.
RECURSIVE load_rows(_, _, _, _)
load_rows(all_rows, month, cols, rows) ==
    IF rows = <<>> THEN all_rows
    ELSE IF Head(rows) = <<>>
    THEN load_rows(all_rows, month, cols, Tail(rows))
    ELSE load_rows(keep_record(all_rows, make_record(month, cols, Head(rows))),
                   month, cols, Tail(rows))

\* load_sheet counting the month of a sheet only when the sheet has a
\* header row: a variant for the check of C23
load_sheet_with_header(sheet, month, acc) ==
    IF month = None THEN acc
    ELSE IF sheet.rows = <<>> THEN acc
    ELSE [all_rows |-> load_rows(acc.all_rows, month,
                                 resolve_columns(Head(sheet.rows)),
                                 Tail(sheet.rows)),
          months_present |-> acc.months_present \cup {month}]

\* One sheet of the loop over wb.sheetnames, month being what detect_month
\* makes of its name.  A sheet is [name, rows], rows being what
\* ws.iter_rows yields: the header row, then the data rows.
load_sheet(sheet, month, acc) ==
    IF month = None THEN acc
    ELSE IF sheet.rows = <<>>
    THEN [acc EXCEPT !.months_present = @ \cup {month}]
    ELSE [all_rows |-> load_rows(acc.all_rows, month,
                                 resolve_columns(Head(sheet.rows)),
                                 Tail(sheet.rows)),
          months_present |-> acc.months_present \cup {month}]

\* The loop over wb.sheetnames: acc = [all_rows, months_present].
RECURSIVE load_sheets(_, _)
load_sheets(sheets, acc) ==
    IF sheets = <<>> THEN acc
    ELSE load_sheets(Tail(sheets),
                     load_sheet(Head(sheets), detect_month(Head(sheets).name),
                                acc))

\* file = [exists, fault, sheets]: whether excel_path exists, the message of
\* the exception reading it raises (None when it reads) and its sheets.
_load_excel(excel_path, file) ==
    IF ~file.exists
    THEN [raised |-> TRUE, error |-> NotFoundPrefix \o excel_path,
          all_rows |-> <<>>, available_months |-> <<>>]
    ELSE IF file.fault # None
    THEN [raised |-> TRUE, error |-> file.fault,
          all_rows |-> <<>>, available_months |-> <<>>]
    ELSE LET got == load_sheets(file.sheets,
                        [all_rows |-> <<>>, months_present |-> {}])
         IN  [raised |-> FALSE, error |-> None,
              all_rows |-> got.all_rows,
              available_months |->
                  SelectSeq2(MONTH_ORDER, got.months_present)]

----------------------------------------------------------------------------
(* Dataset._build_indexes *)

\* The sort key: (Division or "", SA Name or "", Month or "")
sort_key(r) == <<Or(r.Division, <<>>), Or(r.SA_Name, <<>>), Or(r.Month, <<>>)>>

\* k1 < k2 for sort keys (tuples of three texts)
KeyLess(k1, k2) ==
    \/ StrLess(k1[1], k2[1])
    \/ k1[1] = k2[1] /\ StrLess(k1[2], k2[2])
    \/ k1[1] = k2[1] /\ k1[2] = k2[2] /\ StrLess(k1[3], k2[3])

\* insert_sorted putting r before the elements of an equal key: a variant
\* for the check of C19
RECURSIVE insert_sorted_before_ties(_, _)
insert_sorted_before_ties(lst, r) ==
    IF lst = <<>> THEN <<r>>
    ELSE IF ~KeyLess(sort_key(Head(lst)), sort_key(r)) THEN <<r>> \o lst
    ELSE <<Head(lst)>> \o insert_sorted_before_ties(Tail(lst), r)

\* r put into a sorted list behind every element that is not greater.
RECURSIVE insert_sorted(_, _)
insert_sorted(lst, r) ==
    IF lst = <<>> THEN <<r>>
    ELSE IF KeyLess(sort_key(r), sort_key(Head(lst))) THEN <<r>> \o lst
    ELSE <<Head(lst)>> \o insert_sorted(Tail(lst), r)

\* rows.sort(key=...): a stable sort
RECURSIVE sort_rows(_, _)
sort_rows(rows, acc) ==
    IF rows = <<>> THEN acc
    ELSE sort_rows(Tail(rows), insert_sorted(acc, Head(rows)))

\* dict_append leaving out a record the bucket holds already: a variant for
\* the check of C16
dict_append_once(d, key, r) ==
    IF key \in DOMAIN d
    THEN (IF \E i \in 1..Len(d[key]) : d[key][i] = r THEN d
          ELSE [d EXCEPT ![key] = Append(@, r)])
    ELSE d @@ (key :> <<r>>)

\* d[key].append(r) on a defaultdict(list)
dict_append(d, key, r) ==
    IF key \in DOMAIN d THEN [d EXCEPT ![key] = Append(@, r)]
    ELSE d @@ (key :> <<r>>)

\* d[key].add(x) on a defaultdict(set)
dict_add(d, key, x) ==
    IF key \in DOMAIN d THEN [d EXCEPT ![key] = @ \cup {x}]
    ELSE d @@ (key :> {x})

\* index_keys without (m, "all", a): a variant for the check of C1
index_keys_short(m, d, a) ==
    << <<m, d, a>>, <<m, d, all>>, <<m, all, all>>,
       <<all, d, a>>, <<all, d, all>>, <<all, all, a>>, <<all, all, all>> >>

\* The eight keys a record is appended under, in the order of the code.
index_keys(m, d, a) ==
    << <<m, d, a>>, <<m, d, all>>, <<m, all, a>>, <<m, all, all>>,
       <<all, d, a>>, <<all, d, all>>, <<all, all, a>>, <<all, all, all>> >>

RECURSIVE append_all(_, _, _)
append_all(idx, keys, r) ==
    IF keys = <<>> THEN idx
    ELSE append_all(dict_append(idx, Head(keys), r), Tail(keys), r)

\* The body of the loop over the sorted rows.
index_row(st, r) ==
    LET m == key_norm(r.Month)
        d == key_norm(r.Division)
        a == key_norm(r.SA_Name)
        m_txt == strip(Or(r.Month, <<>>))
        d_txt == strip(Or(r.Division, <<>>))
        a_txt == strip(Or(r.SA_Name, <<>>))
    IN  [index |-> append_all(st.index, index_keys(m, d, a), r),
         div_by_month |->
             IF m_txt # <<>> /\ d_txt # <<>>
             THEN dict_add(st.div_by_month, m, d_txt)
             ELSE st.div_by_month,
         sa_by_month_div |->
             IF m_txt # <<>> /\ d_txt # <<>> /\ a_txt # <<>>
             THEN dict_add(st.sa_by_month_div, <<m, d>>, a_txt)
             ELSE st.sa_by_month_div]

RECURSIVE index_rows(_, _)
index_rows(rows, st) ==
    IF rows = <<>> THEN st
    ELSE index_rows(Tail(rows), index_row(st, Head(rows)))

EmptyDict == [k \in {} |-> {}]

\* Returns the sorted rows (the list is sorted in place) and the three maps.
_build_indexes(rows) ==
    LET sorted_rows == sort_rows(rows, <<>>)
        st == index_rows(sorted_rows,
                         [index |-> EmptyDict, div_by_month |-> EmptyDict,
                          sa_by_month_div |-> EmptyDict])
    IN  [rows |-> sorted_rows, index |-> st.index,
         div_by_month |-> st.div_by_month,
         sa_by_month_div |-> st.sa_by_month_div]

\* Dataset.__init__ with _load_and_index: the fields of the new Dataset.
_load_and_index(excel_path, file) ==
    LET got == _load_excel(excel_path, file)
    IN  IF ~got.raised
        THEN LET built == _build_indexes(got.all_rows)
             IN  [data_rows |-> built.rows,
                  available_months |-> got.available_months,
                  load_error |-> None,
                  index |-> built.index,
                  div_by_month |-> built.div_by_month,
                  sa_by_month_div |-> built.sa_by_month_div]
        ELSE LET built == _build_indexes(<<>>)
             IN  [data_rows |-> <<>>,
                  available_months |-> <<>>,
                  load_error |-> got.error,
                  index |-> built.index,
                  div_by_month |-> built.div_by_month,
                  sa_by_month_div |-> built.sa_by_month_div]

----------------------------------------------------------------------------
(* parse_sel, the nested helper of apply_filters and of get_filters *)

RECURSIVE strip_parts(_)
strip_parts(parts) ==
    IF parts = <<>> THEN <<>>
    ELSE IF strip(Head(parts)) # <<>>
         THEN <<strip(Head(parts))>> \o strip_parts(Tail(parts))
         ELSE strip_parts(Tail(parts))

\* parse_sel answering ["all"] to "__NONE__": a variant for the check of C3
parse_sel_none_as_all(v) ==
    LET t == strip(Or(v, All))
    IN  IF t = <<>> THEN <<all>>
        ELSE IF t = NONE_SENTINEL THEN <<all>>
        ELSE IF lower(t) = all THEN <<all>>
        ELSE LET parts == strip_parts(split(t, ","))
             IN  IF parts # <<>> THEN parts ELSE <<all>>

\* parse_sel answering [] to an empty string: a variant for the check of C5
parse_sel_empty_as_none(v) ==
    LET t == strip(v)
    IN  IF t = <<>> THEN <<>>
        ELSE IF t = NONE_SENTINEL THEN <<>>
        ELSE IF lower(t) = all THEN <<all>>
        ELSE LET parts == strip_parts(split(t, ","))
             IN  IF parts # <<>> THEN parts ELSE <<all>>

parse_sel(v) ==
    LET t == strip(Or(v, All))
    IN  IF t = <<>> THEN <<all>>
        ELSE IF t = NONE_SENTINEL THEN <<>>
        ELSE IF lower(t) = all THEN <<all>>
        ELSE LET parts == strip_parts(split(t, ","))
             IN  IF parts # <<>> THEN parts ELSE <<all>>

----------------------------------------------------------------------------
(* Dataset.apply_filters *)

\* self.index[key] in place of .get: the defaultdict makes the bucket.
\* A variant for the check of C9
index_getitem(idx, key) ==
    [rows |-> IF key \in DOMAIN idx THEN idx[key] ELSE <<>>,
     index |-> IF key \in DOMAIN idx THEN idx ELSE idx @@ (key :> <<>>)]

\* self.index.pop(key, []) in place of .get: a variant for the check of C6
index_pop(idx, key) ==
    [rows |-> IF key \in DOMAIN idx THEN idx[key] ELSE <<>>,
     index |-> [k \in DOMAIN idx \ {key} |-> idx[k]]]

\* self.index.get(key, []): the rows found and the index afterwards
index_get(idx, key) ==
    [rows |-> IF key \in DOMAIN idx THEN idx[key] ELSE <<>>,
     index |-> idx]

\* The keys of the product, months outermost and advisors innermost.
product_keys(months, divs, sas) ==
    LET nd == Len(divs)
        ns == Len(sas)
    IN  [i \in 1..(Len(months) * nd * ns) |->
            <<key_norm(months[((i - 1) \div (nd * ns)) + 1]),
              key_norm(divs[(((i - 1) \div ns) % nd) + 1]),
              key_norm(sas[((i - 1) % ns) + 1])>>]

\* emit_rows without the test of seen: a variant for the check of C2
RECURSIVE emit_rows_all(_, _)
emit_rows_all(acc, rows) ==
    IF rows = <<>> THEN acc
    ELSE emit_rows_all([acc EXCEPT !.seen = @ \cup {Head(rows).rid},
                                   !.out = Append(@, Head(rows))],
                       Tail(rows))

\* A record's field values, its identity left out
WithoutId(r) == [f \in DOMAIN r \ {"rid"} |-> r[f]]

\* emit_rows skipping a record whose field values were emitted already: a
\* variant for the check of C18
RECURSIVE emit_rows_by_value(_, _)
emit_rows_by_value(acc, rows) ==
    IF rows = <<>> THEN acc
    ELSE LET r == Head(rows)
         IN  IF \E i \in 1..Len(acc.out) :
                    WithoutId(acc.out[i]) = WithoutId(r)
             THEN emit_rows_by_value(acc, Tail(rows))
             ELSE emit_rows_by_value([acc EXCEPT !.seen = @ \cup {r.rid},
                                                 !.out = Append(@, r)],
                                     Tail(rows))

\* for r in rows: skip r when id(r) was seen, else emit it
RECURSIVE emit_rows(_, _)
emit_rows(acc, rows) ==
    IF rows = <<>> THEN acc
    ELSE LET r == Head(rows)
         IN  IF r.rid \in acc.seen
             THEN emit_rows(acc, Tail(rows))
             ELSE emit_rows([acc EXCEPT !.seen = @ \cup {r.rid},
                                        !.out = Append(@, r)],
                            Tail(rows))

\* acc = [out, seen, index]
RECURSIVE scan_keys(_, _)
scan_keys(acc, keys) ==
    IF keys = <<>> THEN acc
    ELSE LET got == index_get(acc.index, Head(keys))
         IN  scan_keys(emit_rows([acc EXCEPT !.index = got.index], got.rows),
                       Tail(keys))

\* Returns the rows and the index as the call leaves it.
apply_filters(idx, month, division, sa_name) ==
    LET months == parse_sel(month)
        divs == parse_sel(division)
        sas == parse_sel(sa_name)
    IN  IF months = <<>> \/ divs = <<>> \/ sas = <<>>
        THEN [out |-> <<>>, index |-> idx]
        ELSE LET acc == scan_keys([out |-> <<>>, seen |-> {}, index |-> idx],
                                  product_keys(months, divs, sas))
             IN  [out |-> acc.out, index |-> acc.index]

----------------------------------------------------------------------------
(* Dataset.compute_kpis *)

\* sum_field over the rows that have Links Triggered only: a variant for
\* the check of C17
RECURSIVE sum_field_with_links(_, _)
sum_field_with_links(rows, f) ==
    IF rows = <<>> THEN 0
    ELSE (IF Head(rows)[f] # None /\ Head(rows).Links_Triggered # None
          THEN Val(Head(rows)[f]) ELSE 0)
         + sum_field_with_links(Tail(rows), f)

\* sum((r.get(f) or 0) for r in rows if r.get(f) is not None)
RECURSIVE sum_field(_, _)
sum_field(rows, f) ==
    IF rows = <<>> THEN 0
    ELSE (IF Head(rows)[f] # None THEN Val(Head(rows)[f]) ELSE 0)
         + sum_field(Tail(rows), f)

RECURSIVE count_field(_, _)
count_field(rows, f) ==
    IF rows = <<>> THEN 0
    ELSE (IF Head(rows)[f] # None THEN 1 ELSE 0)
         + count_field(Tail(rows), f)

\* int(x): truncation towards zero
int(n) == IF n >= 0 THEN n \div Unit ELSE 0 - ((0 - n) \div Unit)

\* avg_r2 answering 0.0 for a list without a present value: a variant for
\* the check of C11
avg_r2_zero(rows, f) ==
    IF count_field(rows, f) = 0 THEN Float(0)
    ELSE Float(100 * RoundDiv(sum_field(rows, f), 100 * count_field(rows, f)))

\* r2(avg(values)): None without a present value
avg_r2(rows, f) ==
    IF count_field(rows, f) = 0 THEN None
    ELSE Float(100 * RoundDiv(sum_field(rows, f), 100 * count_field(rows, f)))

compute_kpis(rows, include_osat) ==
    LET total_links == sum_field(rows, "Links_Triggered")
        total_resp == sum_field(rows, "Response")
        total_concern == sum_field(rows, "Concern_Count")
        avg_pct == IF total_links # 0
                   THEN r2_scaled(Quot(Float(total_resp), Float(total_links)),
                                  100)
                   ELSE None
        cc_1000 == IF total_links # 0
                   THEN r2_scaled(Quot(Float(total_concern),
                                       Float(total_links)), 1000)
                   ELSE None
    IN  [total_links_triggered |-> int(total_links),
         total_responses |-> int(total_resp),
         avg_percent_response |-> avg_pct,
         total_concern_count |-> int(total_concern),
         avg_cc_per_1000 |-> cc_1000,
         record_count |-> Len(rows),
         has_avg_osat |-> include_osat,
         avg_osat |-> IF include_osat THEN avg_r2(rows, "OSAT") ELSE None]

----------------------------------------------------------------------------
(* Dataset.get_filters *)

\* "all" in [m.lower() for m in sel]
has_all(sel) == \E i \in 1..Len(sel) : lower(sel[i]) = all

\* d.get(key, set()) on div_by_month and sa_by_month_div
dict_get_set(d, key) == IF key \in DOMAIN d THEN d[key] ELSE {}

\* self.available_months without the fallback: a variant for the check of
\* C10
months_as_stored(months) == months

\* self.available_months or MONTH_ORDER
months_or_default(months) == IF months # <<>> THEN months ELSE MONTH_ORDER

\* (r.get("SA Name") or "").strip()
sa_text(r) == strip(Or(r.SA_Name, <<>>))

\* filter_divisions taking the divisions of every month whatever months are
\* selected: a variant for the check of C20
filter_divisions_of_all_months(self, months) ==
    sorted(UNION {self.div_by_month[k] : k \in DOMAIN self.div_by_month})

filter_divisions(self, months) ==
    IF has_all(months)
    THEN sorted(UNION {self.div_by_month[k] : k \in DOMAIN self.div_by_month})
    ELSE sorted(UNION {dict_get_set(self.div_by_month, key_norm(months[i])) :
                       i \in 1..Len(months)})

\* filter_sa_names taking the advisors of every record of the months,
\* whatever its division: a variant for the check of C21
filter_sa_names_any_division(self, months, divs) ==
    sorted({sa_text(self.data_rows[i]) :
            i \in {j \in 1..Len(self.data_rows) :
                   /\ sa_text(self.data_rows[j]) # <<>>
                   /\ \/ has_all(months)
                      \/ \E k \in 1..Len(months) :
                            key_norm(months[k]) =
                                key_norm(self.data_rows[j].Month)}})

filter_sa_names(self, months, divs) ==
    LET want_all_div == has_all(divs)
        rows == self.data_rows
    IN  IF has_all(months) /\ want_all_div
        THEN sorted({sa_text(rows[i]) :
                     i \in {j \in 1..Len(rows) : sa_text(rows[j]) # <<>>}})
        ELSE IF has_all(months)
        THEN LET want_divs == {key_norm(divs[i]) :
                               i \in {j \in 1..Len(divs) :
                                      lower(divs[j]) # all}}
             IN  sorted({sa_text(rows[i]) :
                         i \in {j \in 1..Len(rows) :
                                /\ sa_text(rows[j]) # <<>>
                                /\ key_norm(rows[j].Division) \in want_divs}})
        ELSE IF want_all_div
        THEN sorted(UNION {self.sa_by_month_div[k] :
                           k \in {kk \in DOMAIN self.sa_by_month_div :
                                  \E i \in 1..Len(months) :
                                      kk[1] = key_norm(months[i])}})
        ELSE sorted(UNION {dict_get_set(self.sa_by_month_div,
                                        <<key_norm(months[i]),
                                          key_norm(divs[j])>>) :
                           i \in 1..Len(months), j \in 1..Len(divs)})

\* d.get(key, set()) for each of the keys: a lookup leaves d as it is.
RECURSIVE dict_after_gets(_, _)
dict_after_gets(d, keys) ==
    IF keys = <<>> THEN d
    ELSE dict_after_gets(d, Tail(keys))

\* get_filters behind its test of load_error
filter_options(self, sel_month, sel_div) ==
    LET months == parse_sel(sel_month)
        divs == parse_sel(sel_div)
        out == [raised |-> FALSE, error |-> None,
                months |-> months_or_default(self.available_months),
                divisions |-> <<>>, sa_names |-> <<>>]
    IN  IF months = <<>> THEN out
        ELSE IF divs = <<>>
        THEN [out EXCEPT !.divisions = filter_divisions(self, months)]
        ELSE [out EXCEPT !.divisions = filter_divisions(self, months),
                         !.sa_names = filter_sa_names(self, months, divs)]

\* get_filters without the test of load_error: a variant for the check of
\* C8
get_filters_unchecked(self, sel_month, sel_div) ==
    filter_options(self, sel_month, sel_div)

\* raised: RuntimeError(self.load_error) left the method
get_filters(self, sel_month, sel_div) ==
    IF Truthy(self.load_error)
    THEN [raised |-> TRUE, error |-> self.load_error,
          months |-> <<>>, divisions |-> <<>>, sa_names |-> <<>>]
    ELSE filter_options(self, sel_month, sel_div)

----------------------------------------------------------------------------
(* The handlers /api/filters, /api/data, /api/summary and /api/export *)

\* What a call answers.  raised: an exception left the call, its message in
\* error.  ok, status and error are those of a handler's JSON response.
Response ==
    [raised |-> FALSE, ok |-> TRUE, status |-> 200, error |-> None,
     months |-> <<>>, divisions |-> <<>>, sa_names |-> <<>>,
     rows |-> <<>>, summary |-> [none |-> TRUE], columns |-> <<>>]

\* The response of a handler to a load error: f"{ds.name}: {ds.load_error}"
error_response(self) ==
    [Response EXCEPT !.ok = FALSE, !.status = 500,
                     !.error = self.name \o <<":", " ">> \o self.load_error]

\* jsonify({"ok": True, "filters": ds.get_filters(month, division)}); an
\* exception of get_filters leaves the handler
filters_response(self, month, division) ==
    LET filters == get_filters(self, month, division)
    IN  IF filters.raised
        THEN [Response EXCEPT !.raised = TRUE, !.ok = FALSE, !.status = 500,
                              !.error = filters.error]
        ELSE [Response EXCEPT !.months = filters.months,
                              !.divisions = filters.divisions,
                              !.sa_names = filters.sa_names]

\* api_filters without its test of load_error: a variant for the check of
\* C7
api_filters_unchecked(self, month, division) ==
    filters_response(self, month, division)

api_filters(self, month, division) ==
    IF Truthy(self.load_error) THEN error_response(self)
    ELSE filters_response(self, month, division)

api_data(self, month, division, sa_name) ==
    IF Truthy(self.load_error) THEN error_response(self)
    ELSE LET rows == apply_filters(self.index, month, division, sa_name).out
         IN  [Response EXCEPT !.rows = rows,
                  !.summary = compute_kpis(rows, self.show_osat)]

api_summary(self, month, division, sa_name) ==
    IF Truthy(self.load_error) THEN error_response(self)
    ELSE LET rows == apply_filters(self.index, month, division, sa_name).out
         IN  [Response EXCEPT
                  !.summary = compute_kpis(rows, self.show_osat)]

\* export_xlsx: the header row, then one row of cells per record with ""
\* in place of None
export_xlsx(columns, rows) ==
    <<columns>> \o
    [i \in 1..Len(rows) |->
        [c \in 1..Len(columns) |->
            IF rows[i][columns[c]] = None THEN <<>>
            ELSE rows[i][columns[c]]]]

\* export_cols of the "personal" dataset
ExportCols ==
    <<"Month", "SA_Name", "Links_Triggered", "Response", "Pct_of_Response",
      "Concern_Count", "CC_1000", "OSAT", "NPS", "Division", "Mile_id">>

api_export(self, month, division, sa_name) ==
    IF Truthy(self.load_error) THEN error_response(self)
    ELSE LET rows == apply_filters(self.index, month, division, sa_name).out
         IN  [Response EXCEPT !.rows = export_xlsx(ExportCols, rows),
                              !.columns = ExportCols]

----------------------------------------------------------------------------
(* The inputs *)

MaxRows == 2
MaxSheets == 2

Ab == <<"A","b">>
aB == <<"a","B">>
Xy == <<"X","y">>

\* The cell of an optional text
TextCell(x) == IF x = None THEN NoneCell ELSE StrCell(x)

\* The header row of the sheets: the columns of the advisor, the division,
\* Links Triggered, Response, Concern Count and OSAT.
StdHeader ==
    <<StrCell(<<"S","A"," ","N","a","m","e">>), StrCell(<<"D","i","v","i","s","i","o","n">>),
      StrCell(<<"L","i","n","k","s"," ","T","r","i","g","g","e","r","e","d">>), StrCell(<<"R","e","s","p","o","n","s","e">>),
      StrCell(<<"C","o","n","c","e","r","n"," ","C","o","u","n","t">>), StrCell(<<"O","S","A","T">>)>>

\* The data rows a sheet may hold: an advisor among none, "Xy" and "All",
\* a division among none, "Ab" and "aB", Links Triggered 200, Response 50,
\* Concern Count 3 and OSAT 0.85; and the row of six empty cells, which
\* the loader drops.
RowPool ==
    {<<TextCell(a), TextCell(d), IntCell(200), IntCell(50), IntCell(3),
       FloatCell(85 * 100)>> : a \in {None, Xy, All}, d \in {None, Ab, aB}}
    \cup {<<NoneCell, NoneCell, NoneCell, NoneCell, NoneCell, NoneCell>>}

\* Sheet names: two that detect_month takes for Apr and May, one it does not
\* take for a month.
SheetNames == {<<"A","p","r","i","l","-","S","u","m","m","a","r","y">>, <<" ","M","A","Y">>, <<"N","o","t","e","s">>}

\* The sheets of at most n data rows under the header row, and the sheets
\* of a month without any row.
SheetPool(n) ==
    {[name |-> nm, rows |-> <<StdHeader>> \o rs] :
        nm \in SheetNames, rs \in UNION {[1..k -> RowPool] : k \in 0..n}}
    \cup {[name |-> nm, rows |-> <<>>] :
             nm \in {x \in SheetNames : detect_month(x) # None}}

\* The workbooks of at most ns sheets and nr data rows.
RECURSIVE Workbooks(_, _)
Workbooks(ns, nr) ==
    {<<>>} \cup
    (IF ns = 0 THEN {}
     ELSE UNION {{<<sh>> \o rest :
                    rest \in Workbooks(ns - 1,
                        nr - (IF sh.rows = <<>> THEN 0
                              ELSE Len(sh.rows) - 1))} :
                 sh \in SheetPool(nr)})

\* The files at excel_path: none, one that reading raises on with the
\* message "bad" or "", and the workbooks.
Files ==
    {[exists |-> FALSE, fault |-> None, sheets |-> <<>>]}
    \cup {[exists |-> TRUE, fault |-> f, sheets |-> <<>>] :
             f \in {<<"b","a","d">>, <<>>}}
    \cup {[exists |-> TRUE, fault |-> None, sheets |-> wb] :
             wb \in Workbooks(MaxSheets, MaxRows)}

\* PERSONAL = Dataset("Personal", PERSONAL_XLSX)
DatasetName == <<"P","e","r","s","o","n","a","l">>
ExcelPath == <<"d","a","t","a","/","L",".","x","l","s","x">>

\* Selection strings of the queries
Sels ==
    [month |->
        {All, NONE_SENTINEL, <<>>, <<"a","p","r"," ">>, <<"M","A","Y">>, <<"A","p","r",",","M","a","y">>, <<"M","a","y",",","A","l","l",",","m","a","y">>},
     division |->
        {All, NONE_SENTINEL, <<>>, <<" ","a","b">>, <<"A","B",","," ","Z","z">>},
     sa_name |->
        {All, NONE_SENTINEL, <<>>, <<"X","Y">>, <<"x","y",",","Z","z">>}]

\* Selection strings of the call that is repeated and of the queries made
\* between the call and its repeat
PinSels ==
    [month |->
        {All, <<"A","p","r",",","M","a","y">>},
     division |->
        {All, <<" ","a","b">>},
     sa_name |->
        {All, <<"X","Y">>}]

\* Selection strings of the handler requests
ReqSels ==
    [month |->
        {All, <<>>, <<"M","A","Y">>},
     division |->
        {All, <<>>, <<" ","a","b">>},
     sa_name |->
        {All, <<>>, <<"X","Y">>}]

----------------------------------------------------------------------------
(* The state machine *)

\* The Dataset the queries run on.
Self ==
    [name |-> DatasetName, show_osat |-> TRUE,
     data_rows |-> data_rows, available_months |-> available_months,
     load_error |-> load_error, index |-> index,
     div_by_month |-> div_by_month, sa_by_month_div |-> sa_by_month_div]

NoCall ==
    [op |-> "none", month |-> All, division |-> All, sa_name |-> All,
     ret |-> Response]

\* phase: "none", "pinned" once the call was made, "repeated" once it was
\* made again; between: another query ran after the call.
NoPin == [phase |-> "none", between |-> FALSE, month |-> All,
          division |-> All, sa_name |-> All, rows |-> <<>>]

\* The page as its HTML and script leave it before init runs: the hidden
\* inputs month and division hold "All", the select sa holds its one option
\* "All", msMonth and msDiv have no options, nothing selected and inited
\* false.  selected is a JavaScript Set, kept in insertion order.  sent: the
\* month, division and sa_name of the last /api/data request, <<>> before
\* the first; allRows: the rows on display.  handler, thrown, deselected
\* and clicks record the run: the handler that ran last, whether
\* loadFilters threw in it, whether the user has unchecked an option or
\* cleared a list, and how many changes the user has made.
NoPage ==
    [month |-> All, division |-> All, sa |-> All, sa_options |-> <<All>>,
     msMonth |-> [options |-> <<>>, selected |-> <<>>, inited |-> FALSE],
     msDiv |-> [options |-> <<>>, selected |-> <<>>, inited |-> FALSE],
     sent |-> <<>>, allRows |-> <<>>,
     handler |-> "none", thrown |-> FALSE, deselected |-> FALSE,
     clicks |-> 0]

\* Dataset.__init__ up to the call of _load_and_index
Init ==
    /\ path_exists \in BOOLEAN
    /\ workbook = [exists |-> FALSE, fault |-> None, sheets |-> <<>>]
    /\ pc = "new"
    /\ data_rows = <<>>
    /\ available_months = <<>>
    /\ load_error = None
    /\ index = EmptyDict
    /\ div_by_month = EmptyDict
    /\ sa_by_month_div = EmptyDict
    /\ call = NoCall
    /\ pinned = NoPin
    /\ ui = NoPage

\* self._load_and_index() on the given file
ConstructFrom(file) ==
    /\ pc = "new"
    /\ \E ds \in {_load_and_index(ExcelPath, file)} :
           /\ data_rows' = ds.data_rows
           /\ available_months' = ds.available_months
           /\ load_error' = ds.load_error
           /\ index' = ds.index
           /\ div_by_month' = ds.div_by_month
           /\ sa_by_month_div' = ds.sa_by_month_div
    /\ pc' = "ready"
    /\ UNCHANGED <<ui, path_exists, workbook, call, pinned>>

\* Dataset.__init__: _load_and_index on the file at excel_path
Construct ==
    /\ pc = "new"
    /\ \E file \in {f \in Files : f.exists = path_exists} :
          ConstructFrom(file)

\* The maps as a handler's request leaves them: no lookup is made when the
\* handler answers the load error.
index_after_request(self, m, d, a) ==
    IF Truthy(self.load_error) THEN self.index
    ELSE apply_filters(self.index, m, d, a).index

div_by_month_after(self, m) ==
    IF Truthy(self.load_error) THEN self.div_by_month
    ELSE IF parse_sel(m) = <<>> \/ has_all(parse_sel(m))
    THEN self.div_by_month
    ELSE dict_after_gets(self.div_by_month,
                         [i \in 1..Len(parse_sel(m)) |->
                             key_norm(parse_sel(m)[i])])

sa_by_month_div_after(self, m, d) ==
    IF Truthy(self.load_error) THEN self.sa_by_month_div
    ELSE IF \/ parse_sel(m) = <<>> \/ parse_sel(d) = <<>>
            \/ has_all(parse_sel(m)) \/ has_all(parse_sel(d))
    THEN self.sa_by_month_div
    ELSE dict_after_gets(self.sa_by_month_div,
            [i \in 1..(Len(parse_sel(m)) * Len(parse_sel(d))) |->
                <<key_norm(parse_sel(m)[((i - 1) \div Len(parse_sel(d))) + 1]),
                  key_norm(parse_sel(d)[((i - 1) % Len(parse_sel(d))) + 1])>>])

\* A query starts when the one before it has returned.
Idle == pc = "ready" /\ call.op = "none"

\* ds.apply_filters(m, d, a)
CallApplyFilters(m, d, a) ==
    \E got \in {apply_filters(index, m, d, a)} :
        /\ call' = [op |-> "apply_filters", month |-> m, division |-> d,
                    sa_name |-> a,
                    ret |-> [Response EXCEPT !.rows = got.out]]
        /\ index' = got.index
        /\ UNCHANGED <<ui, path_exists, workbook, pc, data_rows, available_months,
                       load_error, div_by_month, sa_by_month_div>>

\* ds.get_filters(m, d)
CallGetFilters(m, d) ==
    \E got \in {get_filters(Self, m, d)} :
        /\ call' = [op |-> "get_filters", month |-> m, division |-> d,
                    sa_name |-> All,
                    ret |-> [Response EXCEPT
                               !.raised = got.raised,
                               !.error = got.error,
                               !.months = got.months,
                               !.divisions = got.divisions,
                               !.sa_names = got.sa_names]]
        /\ div_by_month' = div_by_month_after(Self, m)
        /\ sa_by_month_div' = sa_by_month_div_after(Self, m, d)
        /\ UNCHANGED <<ui, path_exists, workbook, pc, data_rows, available_months,
                       load_error, index>>

\* GET /api/data?month=m&division=d&sa_name=a
CallApiData(m, d, a) ==
    /\ call' = [op |-> "api_data", month |-> m, division |-> d,
                sa_name |-> a, ret |-> api_data(Self, m, d, a)]
    /\ index' = index_after_request(Self, m, d, a)
    /\ UNCHANGED <<ui, path_exists, workbook, pc, data_rows, available_months,
                   load_error, div_by_month, sa_by_month_div>>

ApplyFilters ==
    /\ Idle
    /\ \E m \in Sels.month, d \in Sels.division, a \in Sels.sa_name :
          CallApplyFilters(m, d, a)
    /\ UNCHANGED pinned

GetFilters ==
    /\ Idle
    /\ \E m \in Sels.month, d \in Sels.division : CallGetFilters(m, d)
    /\ UNCHANGED pinned

\* ds.compute_kpis(rows, inc) on the dataset's rows
ComputeKpis ==
    /\ Idle
    /\ \E inc \in BOOLEAN :
          call' = [op |-> "compute_kpis", month |-> All, division |-> All,
                   sa_name |-> All,
                   ret |-> [Response EXCEPT
                              !.rows = data_rows,
                              !.summary = compute_kpis(data_rows, inc)]]
    /\ UNCHANGED <<ui, path_exists, workbook, pc, data_rows, available_months,
                   load_error, index, div_by_month, sa_by_month_div, pinned>>

\* GET /api/filters?month=m&division=d
ApiFilters ==
    /\ Idle
    /\ \E m \in ReqSels.month, d \in ReqSels.division :
          /\ call' = [op |-> "api_filters", month |-> m, division |-> d,
                      sa_name |-> All, ret |-> api_filters(Self, m, d)]
          /\ div_by_month' = div_by_month_after(Self, m)
          /\ sa_by_month_div' = sa_by_month_div_after(Self, m, d)
    /\ UNCHANGED <<ui, path_exists, workbook, pc, data_rows, available_months,
                   load_error, index, pinned>>

ApiData ==
    /\ Idle
    /\ \E m \in ReqSels.month, d \in ReqSels.division, a \in ReqSels.sa_name : CallApiData(m, d, a)
    /\ UNCHANGED pinned

\* GET /api/summary?month=m&division=d&sa_name=a
ApiSummary ==
    /\ Idle
    /\ \E m \in ReqSels.month, d \in ReqSels.division, a \in ReqSels.sa_name :
          /\ call' = [op |-> "api_summary", month |-> m, division |-> d,
                      sa_name |-> a, ret |-> api_summary(Self, m, d, a)]
          /\ index' = index_after_request(Self, m, d, a)
    /\ UNCHANGED <<ui, path_exists, workbook, pc, data_rows, available_months,
                   load_error, div_by_month, sa_by_month_div, pinned>>

\* GET /api/export?month=m&division=d&sa_name=a
ApiExport ==
    /\ Idle
    /\ \E m \in ReqSels.month, d \in ReqSels.division, a \in ReqSels.sa_name :
          /\ call' = [op |-> "api_export", month |-> m, division |-> d,
                      sa_name |-> a, ret |-> api_export(Self, m, d, a)]
          /\ index' = index_after_request(Self, m, d, a)
    /\ UNCHANGED <<ui, path_exists, workbook, pc, data_rows, available_months,
                   load_error, div_by_month, sa_by_month_div, pinned>>

\* The caller has taken the answer.
Return ==
    /\ pc = "ready"
    /\ call.op # "none"
    /\ call' = NoCall
    /\ UNCHANGED <<ui, path_exists, workbook, pc, data_rows, available_months,
                   load_error, index, div_by_month, sa_by_month_div, pinned>>

Next ==
    \/ Construct
    \/ ApplyFilters
    \/ GetFilters
    \/ ComputeKpis
    \/ ApiFilters
    \/ ApiData
    \/ ApiSummary
    \/ ApiExport
    \/ Return

Spec == Init /\ [][Next]_vars

----------------------------------------------------------------------------
(* A call of apply_filters, other queries, and the same call again *)

Pin ==
    /\ Idle
    /\ pinned.phase = "none"
    /\ \E m \in PinSels.month, d \in PinSels.division, a \in PinSels.sa_name :
          /\ CallApplyFilters(m, d, a)
          /\ pinned' = [phase |-> "pinned", between |-> FALSE,
                        month |-> m, division |-> d, sa_name |-> a,
                        rows |-> apply_filters(index, m, d, a).out]

Between ==
    /\ Idle
    /\ pinned.phase = "pinned"
    /\ \/ \E m \in PinSels.month, d \in PinSels.division, a \in PinSels.sa_name :
             CallApplyFilters(m, d, a)
       \/ \E m \in PinSels.month, d \in PinSels.division : CallGetFilters(m, d)
       \/ \E m \in PinSels.month, d \in PinSels.division, a \in PinSels.sa_name :
             CallApiData(m, d, a)
    /\ pinned' = [pinned EXCEPT !.between = TRUE]

Repeat ==
    /\ Idle
    /\ pinned.phase = "pinned"
    /\ CallApplyFilters(pinned.month, pinned.division, pinned.sa_name)
    /\ pinned' = [pinned EXCEPT !.phase = "repeated"]

NextRepeat ==
    \/ Construct
    \/ Pin
    \/ Between
    \/ Repeat
    \/ Return

SpecRepeat == Init /\ [][NextRepeat]_vars

----------------------------------------------------------------------------
(* The load of a workbook that is kept, and the KPIs of its records *)

\* A data row under StdHeader with advisor "Xy" and division "Ab"
MetricRow(links, resp, concern, osat) ==
    <<StrCell(Xy), StrCell(Ab), links, resp, concern, osat>>

\* Cells of the Links Triggered column: empty, 0, 200, 3, 0.0 and "-"
LinksCells ==
    {NoneCell, IntCell(0), IntCell(200), IntCell(3), FloatCell(0),
     StrCell(<<"-">>)}

\* A workbook of one month sheet with the given rows under StdHeader
OneSheet(name, rows) ==
    [exists |-> TRUE, fault |-> None,
     sheets |-> <<[name |-> name, rows |-> <<StdHeader>> \o rows]>>]

\* Dataset.__init__ up to the call of _load_and_index, the file at
\* excel_path being one of files and kept in workbook
InitKept(files) ==
    /\ workbook \in files
    /\ path_exists = workbook.exists
    /\ pc = "new"
    /\ data_rows = <<>>
    /\ available_months = <<>>
    /\ load_error = None
    /\ index = EmptyDict
    /\ div_by_month = EmptyDict
    /\ sa_by_month_div = EmptyDict
    /\ call = NoCall
    /\ pinned = NoPin
    /\ ui = NoPage

\* Dataset.__init__ on a workbook of metric cells.
\* Workbooks of one data row over the cells of the Links Triggered column,
\* of the Response column (empty, 0, 50, 1, 2 and "1,000") and of the OSAT
\* column (empty, 0.85, 1, 0, 85, 1.5, -0.5, 0.8555, 0.1234, 1.0001, 97.126,
\* "85%", "NA" and True)
\* Workbooks of two data rows over the cells of the Links Triggered,
\* Response and Concern Count (empty, 3 and 2.5) columns
InitLoad ==
    InitKept(
        {OneSheet(Apr, <<MetricRow(l, r, IntCell(3), o)>>) :
                l \in LinksCells,
                r \in {NoneCell, IntCell(0), IntCell(50), IntCell(1), IntCell(2),
                       StrCell(<<"1",",","0","0","0">>)},
                o \in {NoneCell, FloatCell(85 * 100), IntCell(1), IntCell(0),
                       IntCell(85), FloatCell(15 * 1000), FloatCell(0 - 5 * 1000),
                       FloatCell(8555), FloatCell(1234), FloatCell(Unit + 1),
                       FloatCell(97 * Unit + 1260), StrCell(<<"8","5","%">>),
                       StrCell(<<"N","A">>), BoolCell(TRUE)}}
        \cup
        {OneSheet(Apr, <<MetricRow(rw[1], rw[2], rw[3], NoneCell),
                             MetricRow(rw[4], rw[5], rw[6], IntCell(85))>>) :
                rw \in (LinksCells \ {StrCell(<<"-">>)}) \X {NoneCell, IntCell(50)}
                        \X {NoneCell, IntCell(3), FloatCell(25 * 1000)}
                        \X {NoneCell, IntCell(3)} \X {NoneCell, IntCell(1)}
                        \X {NoneCell, IntCell(3)}})

\* Dataset.__init__: _load_and_index on the file kept in workbook
Load ==
    /\ pc = "new"
    /\ ConstructFrom(workbook)

NextLoad ==
    \/ Load
    \/ ComputeKpis
    \/ Return

SpecLoad == InitLoad /\ [][NextLoad]_vars

----------------------------------------------------------------------------
(* The load of a workbook over sheet names and header rows *)

\* Sheet names: of a month by their first three letters, and of no month
NamePool ==
    {<<"A","p","r","i","l","-","S","u","m","m","a","r","y">>, <<"N","o","t","e","s">>, <<" ","m","a","y"," ","2","4">>, <<"M","A","R">>, <<"M","a">>, <<>>,
     <<"x","A","p","r">>, <<"J","U","N","E">>, <<"S","e"," ","p">>, <<"d","e","c">>, <<"J","a","n","v","i","e","r">>, <<"A"," ","p","r">>,
     <<" "," ","f","e","b">>, <<"M","a","r","z","i","p","a","n">>}

\* A sheet of the given name with one data row, of the given advisor,
\* under StdHeader
NamedSheet(name, sa) ==
    [name |-> name,
     rows |-> <<StdHeader,
                <<StrCell(sa), StrCell(Ab), IntCell(200), IntCell(50),
                  IntCell(3), IntCell(85)>> >>]

\* Header cells that name no division: an empty cell, the headers of the
\* other fields, and headers of no field
OtherHeaders ==
    {NoneCell, StrCell(<<"S","A"," ","N","a","m","e">>), StrCell(<<"O","S","A","T">>),
     StrCell(<<"L","i","n","k","s"," ","T","r","i","g","g","e","r","e","d">>), StrCell(<<"R","e","s","p","o","n","s","e">>), StrCell(<<"N","P","S">>),
     StrCell(<<"M","i","l","e"," ","i","d">>), StrCell(<<"C","o","n","c","e","r","n"," ","C","o","u","n","t">>), StrCell(<<"C","C","/","1","0","0","0">>),
     StrCell(<<"R","e","m","a","r","k","s">>), StrCell(<<"S",".","N","o">>)}

\* Dataset.__init__ on a workbook of named sheets or of header cells.
\* Workbooks of two named sheets, the second one with a data row or
\* without any row
\* Workbooks of one sheet "Apr" whose header row has a "Diviosion" column
\* among two other columns, and whose data row holds 1, 2 and 3
InitSheets ==
    InitKept(
        {[exists |-> TRUE, fault |-> None,
              sheets |-> <<NamedSheet(n1, Xy), sh2>>] :
                n1 \in NamePool,
                sh2 \in {NamedSheet(n2, <<"Z","z">>) : n2 \in NamePool}
                        \cup {[name |-> n2, rows |-> <<>>] : n2 \in NamePool}}
        \cup
        {[exists |-> TRUE, fault |-> None,
              sheets |-> <<[name |-> Apr,
                            rows |-> <<SubSeq(<<o1, o2>>, 1, p - 1) \o <<StrCell(dv)>>
                                       \o SubSeq(<<o1, o2>>, p, 2),
                                       <<IntCell(1), IntCell(2), IntCell(3)>> >>]>>] :
                o1 \in OtherHeaders, o2 \in OtherHeaders, p \in 1..3,
                dv \in {<<"D","i","v","i","o","s","i","o","n">>, <<"D","I","V","I","O","S","I","O","N">>, <<" ","d","i","v","i","o","s","i","o","n"," ">>}})

NextSheets == Load

SpecSheets == InitSheets /\ [][NextSheets]_vars

----------------------------------------------------------------------------
(* The load of a workbook over the cells of a data row *)

\* A header row with a column for each of the nine fields
FullHeader ==
    <<StrCell(<<"S","A"," ","N","a","m","e">>), StrCell(<<"D","i","v","i","s","i","o","n">>), StrCell(<<"M","i","l","e"," ","i","d">>),
      StrCell(<<"L","i","n","k","s"," ","T","r","i","g","g","e","r","e","d">>), StrCell(<<"R","e","s","p","o","n","s","e">>), StrCell(<<"N","P","S">>),
      StrCell(<<"C","o","n","c","e","r","n"," ","C","o","u","n","t">>), StrCell(<<"C","C","/","1","0","0","0">>), StrCell(<<"O","S","A","T">>)>>

\* Dataset.__init__ on a workbook over the cells of a data row.
\* Workbooks of a sheet "Apr" with one data row under FullHeader, alone or
\* in front of a second sheet.  The data row has an advisor among none,
\* "Xy" and "-", a division among none and "Ab", Links Triggered among
\* none, 0 and "NA", Response, NPS and OSAT present or not, and of Mile id,
\* Concern Count and CC/1000 none, one or all three.  The second sheet is
\* " MAY" without any row, "May" with a header row only, "april" with a
\* data row of Mile id, Concern Count and CC/1000 only, or "Notes" with a
\* data row.
InitRows ==
    InitKept(
        {[exists |-> TRUE, fault |-> None,
              sheets |-> <<[name |-> Apr,
                            rows |-> <<FullHeader,
                                       <<sa, dv, o[1], li, re, np, o[2], o[3], os>> >>]>>
                          \o sh2] :
                sa \in {NoneCell, StrCell(Xy), StrCell(<<"-">>)},
                dv \in {NoneCell, StrCell(Ab)},
                li \in {NoneCell, IntCell(0), StrCell(<<"N","A">>)},
                re \in {NoneCell, IntCell(50)},
                np \in {NoneCell, IntCell(9)},
                os \in {NoneCell, IntCell(85)},
                o \in {<<NoneCell, NoneCell, NoneCell>>,
                       <<StrCell(<<"M","1">>), NoneCell, NoneCell>>,
                       <<NoneCell, IntCell(3), NoneCell>>,
                       <<NoneCell, NoneCell, IntCell(5)>>,
                       <<StrCell(<<"M","1">>), IntCell(3), IntCell(5)>>},
                sh2 \in {<<>>,
                         <<[name |-> <<" ","M","A","Y">>, rows |-> <<>>]>>,
                         <<[name |-> May, rows |-> <<FullHeader>>]>>,
                         <<[name |-> <<"a","p","r","i","l">>,
                            rows |-> <<FullHeader,
                                       <<NoneCell, NoneCell, StrCell(<<"M","1">>),
                                         NoneCell, NoneCell, NoneCell, IntCell(3),
                                         IntCell(5), NoneCell>> >>]>>,
                         <<[name |-> <<"N","o","t","e","s">>,
                            rows |-> <<FullHeader,
                                       <<StrCell(<<"Z","z">>), StrCell(Ab), NoneCell,
                                         IntCell(1), NoneCell, NoneCell, NoneCell,
                                         NoneCell, NoneCell>> >>]>>}})

SpecRows == InitRows /\ [][NextSheets]_vars

----------------------------------------------------------------------------
(* The page: the filter controls of the browser and their handlers *)

\* Array.from(ms.selected).join(",")
RECURSIVE join_comma(_)
join_comma(words) ==
    IF words = <<>> THEN <<>>
    ELSE IF Len(words) = 1 THEN words[1]
    ELSE words[1] \o <<",">> \o join_comma(Tail(words))

\* The value syncMultiSelectHiddenValue(ms, hiddenInput) gives the hidden
\* input
syncMultiSelectHiddenValue(ms) ==
    IF Len(ms.selected) = 0 THEN NONE_SENTINEL
    ELSE IF Len(ms.options) = 0 THEN All
    ELSE IF Len(ms.selected) = Len(ms.options) THEN All
    ELSE join_comma(ms.selected)

\* ms after rebuildMultiSelect(ms, options, true): the options selected
\* before are kept in the order of the options, and on the first call
\* alone an empty selection becomes all the options
rebuildMultiSelect(ms, options) ==
    LET was(o) == o \in Range(ms.selected)
        kept == SelectSeq(options, was)
    IN  [options |-> options,
         selected |-> IF ~ms.inited /\ Len(kept) = 0 /\ Len(options) > 0
                      THEN options ELSE kept,
         inited |-> TRUE]

\* The page after loadFilters(), j being the response to its request
\* /api/filters: a response that is not ok throws before anything is
\* rebuilt.  An array is truthy in JavaScript, so "months || FY_MONTHS"
\* is months.
loadFilters(u, j) ==
    IF ~j.ok THEN [u EXCEPT !.thrown = TRUE]
    ELSE [u EXCEPT
            !.msMonth = rebuildMultiSelect(@, j.months),
            !.msDiv = rebuildMultiSelect(@, j.divisions),
            !.sa_options = <<All>> \o j.sa_names,
            !.sa = IF (IF @ = <<>> THEN All ELSE @)
                        \in Range(<<All>> \o j.sa_names)
                   THEN (IF @ = <<>> THEN All ELSE @) ELSE All,
            !.month = syncMultiSelectHiddenValue(
                          rebuildMultiSelect(u.msMonth, j.months)),
            !.division = syncMultiSelectHiddenValue(
                             rebuildMultiSelect(u.msDiv, j.divisions))]

\* The page after refresh(), j being the response to its request
\* /api/data: a response that is not ok shows its error and leaves the
\* rows.
refresh(u, j) ==
    [u EXCEPT !.sent = <<u.month, u.division, u.sa>>,
              !.allRows = IF j.ok THEN j.rows ELSE @]

\* "await loadFilters(); await refresh();", the end of init and of every
\* handler of the filter controls, on the page u the handler has made:
\* the hidden values go to /api/filters, params() to /api/data, and when
\* loadFilters throws, refresh does not run.  A handler runs to its end
\* before the next starts.
Handle(name, u) ==
    \E f \in {loadFilters([u EXCEPT !.thrown = FALSE],
                          api_filters(Self, u.month, u.division))} :
    \E r \in {IF f.thrown THEN f
              ELSE refresh(f, api_data(Self, f.month, f.division, f.sa))} :
        /\ ui' = [r EXCEPT !.handler = name]
        /\ div_by_month' = div_by_month_after(Self, u.month)
        /\ sa_by_month_div' = sa_by_month_div_after(Self, u.month, u.division)
        /\ index' = IF f.thrown THEN index
                    ELSE index_after_request(Self, f.month, f.division, f.sa)
        /\ UNCHANGED <<path_exists, workbook, pc, data_rows,
                       available_months, load_error, call, pinned>>

\* init, run once when the page is loaded
PageInit ==
    /\ pc = "ready"
    /\ ui.handler = "none"
    /\ Handle("init", ui)

\* The hidden input of a multi-select
HiddenOf(which) == IF which = "msMonth" THEN "month" ELSE "division"

\* The user's changes of the controls are counted up to MaxClicks.
MaxClicks == 3

\* The change handler of an option's checkbox: the user checks or unchecks
\* the option opt of msMonth or of msDiv
ToggleOption ==
    /\ ui.clicks < MaxClicks
    /\ \E which \in {"msMonth", "msDiv"} :
       \E opt \in Range(ui[which].options) :
       \E sel \in {IF opt \in Range(ui[which].selected)
                   THEN SelectSeq(ui[which].selected, LAMBDA o : o # opt)
                   ELSE Append(ui[which].selected, opt)} :
       \E ms \in {[ui[which] EXCEPT !.selected = sel]} :
          Handle("change",
                 [ui EXCEPT ![which] = ms,
                            ![HiddenOf(which)] = syncMultiSelectHiddenValue(ms),
                            !.deselected = @ \/ opt \in Range(ui[which].selected),
                            !.clicks = @ + 1])

\* ms.all.onchange, the "All / Deselect" checkbox of msMonth or of msDiv:
\* rebuildMultiSelect has set the handler
ToggleAll ==
    /\ ui.clicks < MaxClicks
    /\ \E which \in {"msMonth", "msDiv"} :
       \E ms \in {[ui[which] EXCEPT !.selected =
                        IF Len(@) = Len(ui[which].options) THEN <<>>
                        ELSE @ \o SelectSeq(ui[which].options,
                                  LAMBDA o : o \notin
                                             Range(ui[which].selected))]} :
          /\ ui[which].inited
          /\ Handle("all",
                    [ui EXCEPT ![which] = ms,
                               ![HiddenOf(which)] = syncMultiSelectHiddenValue(ms),
                               !.deselected = @ \/ (ms.selected = <<>> /\
                                                    ui[which].selected # <<>>),
                               !.clicks = @ + 1])

\* The user picks an option of the select sa, which has no handler.
SelectSa ==
    /\ ui.clicks < MaxClicks
    /\ \E v \in Range(ui.sa_options) \ {ui.sa} :
          ui' = [ui EXCEPT !.sa = v, !.clicks = @ + 1]
    /\ UNCHANGED <<path_exists, workbook, pc, data_rows, available_months,
                   load_error, index, div_by_month, sa_by_month_div, call,
                   pinned>>

\* The click handler of the Reset button, once init has run
Reset ==
    /\ ui.handler # "none"
    /\ \E m \in {[ui.msMonth EXCEPT !.selected = ui.msMonth.options]} :
       \E d \in {[ui.msDiv EXCEPT !.selected = ui.msDiv.options]} :
          Handle("reset",
                 [ui EXCEPT !.msMonth = m, !.msDiv = d,
                            !.month = syncMultiSelectHiddenValue(m),
                            !.division = syncMultiSelectHiddenValue(d),
                            !.sa = All])

\* Dataset.__init__ for the page.
\* No file; a workbook without sheets, whose months are the twelve of
\* MONTH_ORDER; and workbooks of a sheet "Apr" alone or with a sheet
\* "May", each of no data row, of one data row with an advisor among none
\* and "Xy" and a division among none, "Ab" and "Zz", or of the two data
\* rows of "Xy" in "Ab" and in "Zz"
InitPage ==
    InitKept(
        {[exists |-> FALSE, fault |-> None, sheets |-> <<>>],
         [exists |-> TRUE, fault |-> None, sheets |-> <<>>]}
        \cup
        {[exists |-> TRUE, fault |-> None,
          sheets |-> [i \in 1..Len(rs) |->
                        [name |-> <<Apr, May>>[i],
                         rows |-> <<StdHeader>> \o
                            [k \in 1..Len(rs[i]) |->
                                <<TextCell(rs[i][k][1]), TextCell(rs[i][k][2]),
                                  IntCell(200), IntCell(50), IntCell(3),
                                  FloatCell(85 * 100)>>]]]] :
            rs \in UNION {[1..n ->
                             {<<>>, <<<<Xy, Ab>>, <<Xy, <<"Z","z">>>>>>}
                             \cup {<< <<a, d>> >> :
                                      a \in {None, Xy},
                                      d \in {None, Ab, <<"Z","z">>}}] :
                          n \in 1..2}})

NextPage ==
    \/ Load
    \/ PageInit
    \/ ToggleOption
    \/ ToggleAll
    \/ SelectSa
    \/ Reset

SpecPage == InitPage /\ [][NextPage]_vars

----------------------------------------------------------------------------
(* Vocabulary of the properties *)

Rows == Range(data_rows)

\* The positions of r in a list
Places(lst, r) == {i \in 1..Len(lst) : lst[i] = r}

\* Some step has built the Dataset.
Built == pc = "ready"

Called(op) == Built /\ call.op = op

\* A record's own key on one dimension: its lowercased text.
OwnKeys(x) == IF x = None THEN {} ELSE {lower(x)}

\* The values a selection string lists: its comma-separated elements,
\* trimmed, the blank ones left out.
Listed(sel) ==
    {strip(split(sel, ",")[i]) :
        i \in {j \in 1..Len(split(sel, ",")) :
                 strip(split(sel, ",")[j]) # <<>>}}

\* A selection of concrete values: it lists at least one value, none of
\* them "all" in any letter case, and it is not the sentinel.
Concrete(sel) ==
    /\ Listed(sel) # {}
    /\ strip(sel) # NONE_SENTINEL
    /\ \A v \in Listed(sel) : lower(v) # all

\* The record's value x is one of the values sel lists, letter case and
\* surrounding blanks ignored.
Selected(x, sel) ==
    /\ x # None
    /\ \E v \in Listed(sel) : lower(strip(v)) = lower(strip(x))

----------------------------------------------------------------------------
(* C1 *)

\* C1: once the index is built, every record of the dataset lies in the
\* bucket of each key made of its own lowercased Month, Division and SA Name
\* or "all" in their place.
C1_IndexHoldsRecordUnderItsKeys ==
    Built =>
        \A r \in Rows :
            \A m \in OwnKeys(r.Month) \cup {all},
               d \in OwnKeys(r.Division) \cup {all},
               a \in OwnKeys(r.SA_Name) \cup {all} :
                /\ <<m, d, a>> \in DOMAIN index
                /\ r \in Range(index[<<m, d, a>>])

\* Two records are indexed, one of them with all three values present and a
\* Division spelled with capitals.
C1_Witness ==
    /\ Built
    /\ Len(data_rows) = 2
    /\ \E r \in Rows : r.Division = Ab /\ r.SA_Name = Xy /\ r.Month = May
    /\ \E r \in Rows : r.Division = None

----------------------------------------------------------------------------
(* C2 *)

\* C2: apply_filters("All", "All", "All") returns every record of data_rows
\* exactly once and nothing else.
C2_AllReturnsEveryRecordOnce ==
    (Called("apply_filters") /\ call.month = All /\ call.division = All
        /\ call.sa_name = All)
    => /\ \A r \in Rows : Cardinality(Places(call.ret.rows, r)) = 1
       /\ Range(call.ret.rows) \subseteq Rows

\* The call was made on a dataset with a record that has neither Division
\* nor SA Name beside a record that has both.
C2_Witness ==
    /\ Called("apply_filters")
    /\ call.month = All /\ call.division = All /\ call.sa_name = All
    /\ Len(data_rows) = 2
    /\ \E r \in Rows : r.Division = None /\ r.SA_Name = None
    /\ \E r \in Rows : r.Division # None /\ r.SA_Name # None

----------------------------------------------------------------------------
(* C3 *)

\* C3: apply_filters returns the empty list when one of its three selectors
\* is "__NONE__".
C3_NoneSelectsNothing ==
    (Called("apply_filters")
        /\ NONE_SENTINEL \in {call.month, call.division, call.sa_name})
    => call.ret.rows = <<>>

\* The advisor selector alone is "__NONE__", on a dataset with two records.
C3_Witness ==
    /\ Called("apply_filters")
    /\ call.sa_name = NONE_SENTINEL
    /\ call.month = All /\ call.division = All
    /\ Len(data_rows) = 2

----------------------------------------------------------------------------
(* C4 *)

\* C4: with three selections of concrete values apply_filters returns the
\* records whose Month, Division and SA Name are each among the values
\* listed, and no other record; a record without Division or SA Name is not
\* returned.
C4_ConcreteSelectionIsExact ==
    (Called("apply_filters") /\ Concrete(call.month)
        /\ Concrete(call.division) /\ Concrete(call.sa_name))
    => Range(call.ret.rows) =
          {r \in Rows : /\ Selected(r.Month, call.month)
                        /\ Selected(r.Division, call.division)
                        /\ Selected(r.SA_Name, call.sa_name)}

\* Lists of two values select one of two records; the other record has no
\* Division.
C4_Witness ==
    /\ Called("apply_filters")
    /\ call.month = <<"A","p","r",",","M","a","y">>
    /\ call.division = <<"A","B",","," ","Z","z">>
    /\ call.sa_name = <<"x","y",",","Z","z">>
    /\ Len(data_rows) = 2
    /\ Len(call.ret.rows) = 1
    /\ call.ret.rows[1].Division = aB
    /\ \E r \in Rows : r.Division = None /\ r.SA_Name = Xy

----------------------------------------------------------------------------
(* C5 *)

\* A selection that names values none of which is the record field f of a
\* record of the dataset
Unrecognized(sel, f) ==
    /\ Concrete(sel)
    /\ \A r \in Rows : ~Selected(r[f], sel)

EmptyOrUnrecognized(sel, f) == sel = <<>> \/ Unrecognized(sel, f)

\* The rows of the data query with the given selections
DataRows(m, d, a) == api_data(Self, m, d, a).rows

\* C5 as claimed: a data query with an empty or an unrecognized selection
\* on a dimension returns the rows of the same query with "All" there.
C5_AsClaimed ==
    Called("api_data") =>
        /\ EmptyOrUnrecognized(call.month, "Month") =>
              call.ret.rows = DataRows(All, call.division, call.sa_name)
        /\ EmptyOrUnrecognized(call.division, "Division") =>
              call.ret.rows = DataRows(call.month, All, call.sa_name)
        /\ EmptyOrUnrecognized(call.sa_name, "SA_Name") =>
              call.ret.rows = DataRows(call.month, call.division, All)

\* C5 amended: a data query with an empty selection on a dimension returns
\* the rows of the same query with "All" there; a data query with an
\* unrecognized selection on a dimension returns no row.
C5_EmptyIsAllUnrecognizedIsNothing ==
    Called("api_data") =>
        /\ call.month = <<>> =>
              call.ret.rows = DataRows(All, call.division, call.sa_name)
        /\ call.division = <<>> =>
              call.ret.rows = DataRows(call.month, All, call.sa_name)
        /\ call.sa_name = <<>> =>
              call.ret.rows = DataRows(call.month, call.division, All)
        /\ (\/ Unrecognized(call.month, "Month")
            \/ Unrecognized(call.division, "Division")
            \/ Unrecognized(call.sa_name, "SA_Name")) =>
              call.ret.rows = <<>>

\* A data query with empty month and advisor selections and a division
\* selection that one of the two records matches
C5_Witness ==
    /\ Called("api_data")
    /\ call.month = <<>>
    /\ call.division = <<" ","a","b">>
    /\ call.sa_name = <<>>
    /\ Len(data_rows) = 2
    /\ Len(call.ret.rows) = 1

----------------------------------------------------------------------------
(* C6 *)

SameCallAsPinned ==
    /\ Called("apply_filters")
    /\ pinned.phase # "none"
    /\ call.month = pinned.month
    /\ call.division = pinned.division
    /\ call.sa_name = pinned.sa_name

\* C6: an apply_filters call whose selectors are those of an earlier call
\* returns the records the earlier call returned, in the same order.
C6_RepeatedCallReturnsTheSame ==
    SameCallAsPinned => call.ret.rows = pinned.rows

\* The call was made again after other queries, and returns two records.
C6_Witness ==
    /\ SameCallAsPinned
    /\ pinned.phase = "repeated"
    /\ pinned.between
    /\ pinned.month = <<"A","p","r",",","M","a","y">>
    /\ Len(call.ret.rows) = 2

----------------------------------------------------------------------------
(* C7 *)

\* f"Excel file not found: {self.excel_path}"
NotFoundMessage == NotFoundPrefix \o ExcelPath

\* C7: a Dataset built on a path that does not exist has load_error set to
\* the file-not-found message, no record, no available month and empty
\* index and membership maps; get_filters on it raises with that message
\* and /api/filters answers ok = false with it, no exception leaving the
\* handler.
C7_MissingFileIsALoadError ==
    (Built /\ ~path_exists) =>
        /\ load_error = NotFoundMessage
        /\ data_rows = <<>>
        /\ available_months = <<>>
        /\ DOMAIN index = {}
        /\ DOMAIN div_by_month = {}
        /\ DOMAIN sa_by_month_div = {}
        /\ call.op = "get_filters" =>
              call.ret.raised /\ call.ret.error = NotFoundMessage
        /\ call.op = "api_filters" =>
              /\ ~call.ret.raised
              /\ ~call.ret.ok
              /\ call.ret.error = DatasetName \o <<":", " ">> \o NotFoundMessage

\* /api/filters has answered for a Dataset built on a missing file.
C7_Witness ==
    /\ Called("api_filters")
    /\ ~path_exists
    /\ call.ret.status = 500

----------------------------------------------------------------------------
(* C8 *)

LoadFailed == Built /\ load_error # None

\* C8 as claimed: a dataset whose load failed answers apply_filters with no
\* row and get_filters with no division and no advisor, without failing.
C8_AsClaimed ==
    LoadFailed =>
        /\ call.op = "apply_filters" =>
              ~call.ret.raised /\ call.ret.rows = <<>>
        /\ call.op = "get_filters" =>
              /\ ~call.ret.raised
              /\ call.ret.divisions = <<>>
              /\ call.ret.sa_names = <<>>

\* C8 amended: a dataset whose load failed answers apply_filters with no
\* row for every selection; get_filters on it raises with the stored
\* message when that message is not empty, and returns no division and no
\* advisor when it is empty.
C8_FailedLoadAnswersEmptyOrRaises ==
    LoadFailed =>
        /\ call.op = "apply_filters" =>
              ~call.ret.raised /\ call.ret.rows = <<>>
        /\ call.op = "get_filters" =>
              IF load_error # <<>>
              THEN call.ret.raised /\ call.ret.error = load_error
              ELSE /\ ~call.ret.raised
                   /\ call.ret.divisions = <<>>
                   /\ call.ret.sa_names = <<>>

\* get_filters was called on a dataset whose file exists and failed to
\* load.
C8_Witness ==
    /\ LoadFailed
    /\ path_exists
    /\ load_error # <<>>
    /\ Called("get_filters")
    /\ call.month = All

----------------------------------------------------------------------------
(* C9 *)

\* C9: once the Dataset is built, no step changes its record list, its
\* index, its membership maps, its available months or its load error.
C9_QueriesLeaveTheDatasetAlone ==
    [][Built => dsvars' = dsvars]_vars

\* apply_filters has looked up a division key that has no bucket.
C9_Witness ==
    /\ Called("apply_filters")
    /\ call.month = All
    /\ call.division = <<" ","a","b">>
    /\ call.sa_name = All
    /\ Len(data_rows) = 2
    /\ <<all, <<"a","b">>, all>> \notin DOMAIN index

----------------------------------------------------------------------------
(* C10 *)

\* The elements of lst follow each other as they do in MONTH_ORDER.
FiscalOrder(lst) ==
    \A i, j \in 1..Len(lst) :
        i < j => \E p, q \in 1..Len(MONTH_ORDER) :
                    p < q /\ MONTH_ORDER[p] = lst[i] /\ MONTH_ORDER[q] = lst[j]

\* C10 as claimed: the months get_filters returns on a loaded dataset are
\* its available_months, also when the workbook has no month sheet.
C10_AsClaimed ==
    (Called("get_filters") /\ load_error = None)
    => call.ret.months = available_months

\* C10 amended: the months get_filters returns are the dataset's
\* available_months, in fiscal order, for every month and division
\* selection when that list is not empty, and the twelve months of
\* MONTH_ORDER when it is empty.
C10_MonthsAreAvailableOrAllTwelve ==
    (Called("get_filters") /\ load_error = None)
    => /\ call.ret.months =
             IF available_months # <<>> THEN available_months
             ELSE MONTH_ORDER
       /\ FiscalOrder(call.ret.months)

\* get_filters was called with the month selection "__NONE__" on a dataset
\* of two months.
C10_Witness ==
    /\ Called("get_filters")
    /\ load_error = None
    /\ call.month = NONE_SENTINEL
    /\ available_months = <<Apr, May>>

----------------------------------------------------------------------------
(* C11 *)

\* C11: compute_kpis on an empty list of rows returns 0 for the three totals
\* and for record_count, and None for avg_percent_response, for
\* avg_cc_per_1000 and, where OSAT is included, for avg_osat; no exception
\* leaves it.
C11_EmptyRowsGiveZerosAndAbsents ==
    (Called("compute_kpis") /\ call.ret.rows = <<>>)
    => /\ ~call.ret.raised
       /\ call.ret.summary.total_links_triggered = 0
       /\ call.ret.summary.total_responses = 0
       /\ call.ret.summary.total_concern_count = 0
       /\ call.ret.summary.record_count = 0
       /\ call.ret.summary.avg_percent_response = None
       /\ call.ret.summary.avg_cc_per_1000 = None
       /\ call.ret.summary.has_avg_osat =>
              call.ret.summary.avg_osat = None

\* compute_kpis was called with OSAT included on the empty record list of a
\* dataset that loaded without error.
C11_Witness ==
    /\ Called("compute_kpis")
    /\ load_error = None
    /\ call.ret.rows = <<>>
    /\ call.ret.summary.has_avg_osat

----------------------------------------------------------------------------
(* C12 *)

\* The row of the kept workbook that record r was made of.  The kept
\* workbooks have one sheet and no row that the loader drops, so that the
\* record loaded as number n comes from the n-th data row.
RawRow(r) == workbook.sheets[1].rows[r.rid + 1]

\* The cell of r's row under the header text h of StdHeader
RawCell(r, h) ==
    RawRow(r)[CHOOSE i \in 1..Len(StdHeader) : StdHeader[i] = StrCell(h)]

\* y is the number num / den (in ten-thousandths) rounded to 2 decimals: a
\* multiple of 0.01 at most 0.005 away from it.
IsRound2(y, num, den) ==
    /\ y # None
    /\ Val(y) % 100 = 0
    /\ 2 * Abs(Val(y) * den - num) <= 100 * den

\* Raw and stored OSAT of the examples: 0.85 and 85.0, 1 and 100.0, 0 and
\* 0.0, 85 and 85.0, 1.5 and 1.5
OsatExamples ==
    {<<85 * 100, 85 * Unit>>, <<Unit, 100 * Unit>>, <<0, 0>>,
     <<85 * Unit, 85 * Unit>>, <<15 * 1000, 15 * 1000>>}

\* C12: the OSAT of a loaded record is the raw OSAT value times 100 rounded
\* to 2 decimals when the raw value lies in [0, 1], the raw value rounded to
\* 2 decimals when it lies outside, and absent when the raw value is
\* absent; the examples of the claim come out as stated.
C12_OsatIsScaledInUnitInterval ==
    Built =>
        \A r \in Rows :
            LET raw == to_float(RawCell(r, <<"O","S","A","T">>))
            IN  /\ raw = None => r.OSAT = None
                /\ (raw # None /\ 0 <= Val(raw) /\ Val(raw) <= Unit)
                      => IsRound2(r.OSAT, Val(raw) * 100, 1)
                /\ (raw # None /\ (Val(raw) < 0 \/ Val(raw) > Unit))
                      => IsRound2(r.OSAT, Val(raw), 1)
                /\ \A ex \in OsatExamples :
                      raw = Float(ex[1]) => r.OSAT = Float(ex[2])

\* A row with the raw OSAT 1 was loaded, and stored with the OSAT 100.0.
C12_Witness ==
    /\ Built
    /\ Len(data_rows) = 1
    /\ RawCell(data_rows[1], <<"O","S","A","T">>) = IntCell(1)
    /\ data_rows[1].OSAT = Float(100 * Unit)

----------------------------------------------------------------------------
(* C13 *)

\* C13: the load of a readable workbook does not fail, and the "% of
\* Response" of every loaded record is Response / Links Triggered x 100
\* rounded to 2 decimals when both are present and Links Triggered is not
\* zero, and absent otherwise; Response 50 with Links Triggered 200 gives
\* 25.0.
C13_PctIsRatioOrAbsent ==
    Built =>
        /\ load_error = None
        /\ Len(data_rows) = Len(workbook.sheets[1].rows) - 1
        /\ \A r \in Rows :
              /\ IF /\ r.Response # None
                    /\ r.Links_Triggered # None
                    /\ Val(r.Links_Triggered) # 0
                 THEN LET g == Gcd(Val(r.Response), Val(r.Links_Triggered))
                      IN  /\ Val(r.Links_Triggered) > 0
                          /\ IsRound2(r.Pct_of_Response,
                                      (Val(r.Response) \div g) * 100 * Unit,
                                      Val(r.Links_Triggered) \div g)
                 ELSE r.Pct_of_Response = None
              /\ (r.Response = Float(50 * Unit)
                    /\ r.Links_Triggered = Float(200 * Unit))
                 => r.Pct_of_Response = Float(25 * Unit)

\* A row with Response 50 and Links Triggered 0 was loaded, and its record
\* has no "% of Response".
C13_Witness ==
    /\ Built
    /\ load_error = None
    /\ Len(data_rows) = 1
    /\ RawCell(data_rows[1], <<"L","i","n","k","s"," ","T","r","i","g","g","e","r","e","d">>) = IntCell(0)
    /\ data_rows[1].Response = Float(50 * Unit)
    /\ data_rows[1].Links_Triggered = Float(0)
    /\ data_rows[1].Pct_of_Response = None

----------------------------------------------------------------------------
(* C14 *)

\* The months whose abbreviation the first three characters of the trimmed
\* name spell, letter case ignored
MonthsNamed(name) ==
    {M \in Range(MONTH_ORDER) :
        /\ Len(strip(name)) >= 3
        /\ \A i \in 1..3 : lower(strip(name))[i] = lower(M)[i]}

\* The positions of the kept workbook's sheets that name a month and have a
\* header row
MonthSheets ==
    {k \in 1..Len(workbook.sheets) :
        /\ MonthsNamed(workbook.sheets[k].name) # {}
        /\ workbook.sheets[k].rows # <<>>}

\* The sheet that record r was read from.  Each sheet of the kept workbooks
\* has at most one data row, which the loader does not drop, so that the
\* record loaded as number n comes from the n-th sheet of MonthSheets.
SheetOf(r) ==
    CHOOSE k \in MonthSheets :
        Cardinality({j \in MonthSheets : j <= k}) = r.rid

\* C14: detect_month returns the month whose abbreviation the first three
\* characters of the trimmed sheet name spell in any letter case, and None
\* when there is no such month; the load reads the sheets of a month only,
\* gives each record the month of its sheet, and passes the other sheets
\* over without an error.
C14_MonthSheetsAreReadOthersSkipped ==
    Built =>
        /\ load_error = None
        /\ \A k \in 1..Len(workbook.sheets) :
              LET name == workbook.sheets[k].name
              IN  IF MonthsNamed(name) = {}
                  THEN detect_month(name) = None
                  ELSE detect_month(name) \in MonthsNamed(name)
        /\ detect_month(<<"A","p","r","i","l","-","S","u","m","m","a","r","y">>) = Apr
        /\ detect_month(<<"N","o","t","e","s">>) = None
        /\ Len(data_rows) = Cardinality(MonthSheets)
        /\ \A r \in Rows :
              /\ r.Month \in MonthsNamed(workbook.sheets[SheetOf(r)].name)
              /\ workbook.sheets[SheetOf(r)].rows[1] = StdHeader
                    => r.SA_Name = s(workbook.sheets[SheetOf(r)].rows[2][1])

\* The workbook has a sheet "Notes" in front of a sheet " may 24": the one
\* record loaded is that of the second sheet and has the month May.
C14_Witness ==
    /\ Built
    /\ Len(workbook.sheets) = 2
    /\ workbook.sheets[1].name = <<"N","o","t","e","s">>
    /\ workbook.sheets[2].name = <<" ","m","a","y"," ","2","4">>
    /\ Len(data_rows) = 1
    /\ data_rows[1].Month = May
    /\ data_rows[1].SA_Name = <<"Z","z">>

----------------------------------------------------------------------------
(* C15 *)

\* The header cell is named "Diviosion", in any letter case.
NamedDiviosion(h) == h.kind = "str" /\ lower(strip(h.text)) = <<"d","i","v","i","o","s","i","o","n">>

\* The header cell holds one of the loader's division tokens.
DivisionLike(h) ==
    /\ h.kind # "none"
    /\ \E g \in 1..Len(ColumnTokens.c_div) :
          \E j \in 1..Len(ColumnTokens.c_div[g]) :
              contains(lower(str(h)), ColumnTokens.c_div[g][j])

\* The positions of a header row whose cell is named "Diviosion"
DiviosionPlaces(header) ==
    {p \in 1..Len(header) : NamedDiviosion(header[p])}

\* The header row has one "Diviosion" column and no other division-like
\* header.
OnlyDiviosion(header) ==
    /\ Cardinality(DiviosionPlaces(header)) = 1
    /\ \A q \in 1..Len(header) :
          DivisionLike(header[q]) => q \in DiviosionPlaces(header)

\* C15: on a sheet whose header row has a column named "Diviosion" and no
\* other division-like header, the loader resolves the Division to that
\* column and no other field to it: the record of a data row has the
\* Division of that column's cell, and none of its other fields is taken
\* from that cell.
C15_DiviosionResolvesToDivision ==
    (Built /\ Len(workbook.sheets) = 1
           /\ OnlyDiviosion(workbook.sheets[1].rows[1]))
    => \A p \in DiviosionPlaces(workbook.sheets[1].rows[1]) :
          LET cols == resolve_columns(workbook.sheets[1].rows[1])
              x == workbook.sheets[1].rows[2][p]
          IN  /\ cols["c_div"] = p - 1
              /\ \A c \in DOMAIN cols \ {"c_div"} : cols[c] # p - 1
              /\ Len(data_rows) = 1
              /\ \A r \in Rows :
                    /\ r.Division = s(x)
                    /\ r.SA_Name # s(x)
                    /\ r.Mile_id # s(x)
                    /\ \A f \in {"Links_Triggered", "Response", "NPS",
                                  "Concern_Count", "CC_1000"} :
                          r[f] # to_float(x)
                    /\ r.OSAT # osat_of(to_float(x))

\* The header row has an empty cell, "DIVIOSION" and "SA Name": the record
\* has the Division "2" and the advisor "3".
C15_Witness ==
    /\ Built
    /\ Len(workbook.sheets) = 1
    /\ workbook.sheets[1].rows[1] =
          <<NoneCell, StrCell(<<"D","I","V","I","O","S","I","O","N">>), StrCell(<<"S","A"," ","N","a","m","e">>)>>
    /\ Len(data_rows) = 1
    /\ data_rows[1].Division = <<"2">>
    /\ data_rows[1].SA_Name = <<"3">>

----------------------------------------------------------------------------
(* C16 *)

\* The index keys whose bucket holds record r
KeysHolding(r) == {k \in DOMAIN index : r \in Range(index[k])}

\* The keys made of r's own key or "all" on each of the three dimensions
CombinationKeys(r) ==
    {<<m, d, a>> : m \in {key_norm(r.Month), all},
                   d \in {key_norm(r.Division), all},
                   a \in {key_norm(r.SA_Name), all}}

\* C16 as claimed: every record is held under exactly 8 index entries and
\* occurs exactly once in each of them, also a record whose Division or SA
\* Name is absent or is the text "All".
C16_AsClaimed ==
    Built =>
        \A r \in Rows :
            /\ Cardinality(KeysHolding(r)) = 8
            /\ \A k \in KeysHolding(r) :
                  Cardinality(Places(index[k], r)) = 1

\* C16 amended: every record is held under the entries of the combinations
\* of {its own key, "all"} over month, division and advisor and under no
\* other entry; these are 8 entries, each holding the record once, when the
\* record's division key and advisor key are not "all"; on a dimension
\* where the record's value is absent or is the text "All" the own key is
\* "all", so that the record is held under 4 entries (2 when that is so on
\* both dimensions) and occurs 2 times (4 times) in each of them.
C16_EightAppendsUnderCombinationKeys ==
    Built =>
        \A r \in Rows :
            /\ KeysHolding(r) = CombinationKeys(r)
            /\ Cardinality(CombinationKeys(r)) =
                  (IF key_norm(r.Division) = all THEN 1 ELSE 2)
                  * (IF key_norm(r.SA_Name) = all THEN 1 ELSE 2) * 2
            /\ \A k \in KeysHolding(r) :
                  Cardinality(Places(index[k], r))
                  * Cardinality(CombinationKeys(r)) = 8
            /\ (r.Division # None /\ r.SA_Name # None
                  /\ lower(strip(r.Division)) # all
                  /\ lower(strip(r.SA_Name)) # all)
               => Cardinality(KeysHolding(r)) = 8

\* The index holds a record without Division and SA Name, four times in
\* the bucket of ("all", "all", "all"), and a record with both under 8
\* keys.
C16_Witness ==
    /\ Built
    /\ Len(data_rows) = 2
    /\ \E r \in Rows :
          /\ r.Division = None /\ r.SA_Name = None
          /\ Cardinality(KeysHolding(r)) = 2
          /\ Cardinality(Places(index[<<all, all, all>>], r)) = 4
    /\ \E r \in Rows :
          /\ r.Division = Ab /\ r.SA_Name = Xy
          /\ Cardinality(KeysHolding(r)) = 8

----------------------------------------------------------------------------
(* C17 *)

\* The sum of the present values of field f over the rows at the positions
\* I, in ten-thousandths
RECURSIVE TotalOver(_, _, _)
TotalOver(rows, f, I) ==
    IF I = {} THEN 0
    ELSE LET i == CHOOSE j \in I : TRUE
         IN  (IF rows[i][f] = None THEN 0 ELSE Val(rows[i][f]))
             + TotalOver(rows, f, I \ {i})

Total(rows, f) == TotalOver(rows, f, 1..Len(rows))

\* y is num / den x k rounded to 2 decimals, for totals num and den > 0
IsRatio(y, num, den, k) ==
    IsRound2(y, (num \div Gcd(num, den)) * k * Unit, den \div Gcd(num, den))

\* C17: the totals of compute_kpis are the whole part of the sums of the
\* present values of Links Triggered, Response and Concern Count over the
\* rows; avg_percent_response is total responses / total links x 100 and
\* avg_cc_per_1000 is total concern count / total links x 1000, rounded to
\* 2 decimals; both are absent exactly when the total of Links Triggered
\* is 0.
C17_RatiosComeFromTotals ==
    Called("compute_kpis") =>
        LET rows == call.ret.rows
            kpis == call.ret.summary
            links == Total(rows, "Links_Triggered")
            resp == Total(rows, "Response")
            concern == Total(rows, "Concern_Count")
        IN  /\ kpis.total_links_triggered = links \div Unit
            /\ kpis.total_responses = resp \div Unit
            /\ kpis.total_concern_count = concern \div Unit
            /\ kpis.record_count = Len(rows)
            /\ IF links = 0
               THEN /\ kpis.avg_percent_response = None
                    /\ kpis.avg_cc_per_1000 = None
               ELSE /\ IsRatio(kpis.avg_percent_response, resp, links, 100)
                    /\ IsRatio(kpis.avg_cc_per_1000, concern, links, 1000)

\* compute_kpis ran on two rows, the first without Links Triggered and with
\* Response 50 and Concern Count 3, the second with Links Triggered 3,
\* Response 1 and Concern Count 3: the ratios are 51 / 3 x 100 and
\* 6 / 3 x 1000.
C17_Witness ==
    /\ Called("compute_kpis")
    /\ Len(call.ret.rows) = 2
    /\ call.ret.rows[1].Links_Triggered = None
    /\ call.ret.rows[1].Response = Float(50 * Unit)
    /\ call.ret.rows[1].Concern_Count = Float(3 * Unit)
    /\ call.ret.rows[2].Links_Triggered = Float(3 * Unit)
    /\ call.ret.summary.total_responses = 51
    /\ call.ret.summary.avg_percent_response = Float(1700 * Unit)
    /\ call.ret.summary.avg_cc_per_1000 = Float(2000 * Unit)

----------------------------------------------------------------------------
(* C18 *)

\* The concatenation of the lists of a list of lists
RECURSIVE Concat(_)
Concat(lists) ==
    IF lists = <<>> THEN <<>> ELSE Head(lists) \o Concat(Tail(lists))

\* The bucket of the key of one month, one division and one advisor
Bucket(m, d, a) ==
    IF <<key_norm(m), key_norm(d), key_norm(a)>> \in DOMAIN index
    THEN index[<<key_norm(m), key_norm(d), key_norm(a)>>]
    ELSE <<>>

\* The records the traversal of the selector product meets, in its order:
\* months outermost, advisors innermost, each bucket in index order
Traversal(months, divs, sas) ==
    Concat([i \in 1..Len(months) |->
        Concat([j \in 1..Len(divs) |->
            Concat([k \in 1..Len(sas) |->
                Bucket(months[i], divs[j], sas[k])])])])

\* The first position of x in a list that holds it
FirstPlace(lst, x) == CHOOSE i \in Places(lst, x) : \A j \in Places(lst, x) : i <= j

\* out holds every record of trav once, in the order of their first
\* positions in trav.
FirstMeetings(out, trav) ==
    /\ Range(out) = Range(trav)
    /\ \A x \in Range(out) : Cardinality(Places(out, x)) = 1
    /\ \A i, j \in 1..Len(out) :
          i < j => FirstPlace(trav, out[i]) < FirstPlace(trav, out[j])

\* C18: apply_filters returns each record that the traversal of the
\* selector product meets exactly once, in the order in which the traversal
\* first meets them; records are told apart by identity, so two records
\* with the same field values are both returned.
C18_EachRecordOnceInFirstMeetingOrder ==
    Called("apply_filters") =>
        FirstMeetings(call.ret.rows,
                      Traversal(parse_sel(call.month),
                                parse_sel(call.division),
                                parse_sel(call.sa_name)))

\* The month selection lists May twice and "All"; the two records of the
\* dataset have the same field values, no Division among them, and are
\* both returned.
C18_Witness ==
    /\ Called("apply_filters")
    /\ call.month = <<"M","a","y",",","A","l","l",",","m","a","y">>
    /\ call.division = All
    /\ call.sa_name = All
    /\ Len(data_rows) = 2
    /\ WithoutId(data_rows[1]) = WithoutId(data_rows[2])
    /\ data_rows[1].Division = None
    /\ Len(call.ret.rows) = 2

----------------------------------------------------------------------------
(* C19 *)

\* A field's value as text, an absent value taken as the empty text
AsText(v) == IF v = None THEN <<>> ELSE v

\* Text a is before text b: they agree on the first n characters, and then
\* a ends while b goes on, or a's next character has the smaller code.
TextBefore(a, b) ==
    \E n \in 0..Len(a) :
        /\ n <= Len(b)
        /\ \A i \in 1..n : a[i] = b[i]
        /\ \/ n = Len(a) /\ n < Len(b)
           \/ n < Len(a) /\ n < Len(b) /\ ord(a[n + 1]) < ord(b[n + 1])

\* The (Division, SA Name, Month) of a record, as texts
OrderKey(r) == <<AsText(r.Division), AsText(r.SA_Name), AsText(r.Month)>>

\* Key k1 is before key k2, the first of the three texts counting most
KeyBefore(k1, k2) ==
    \E n \in 1..3 :
        /\ \A i \in 1..(n - 1) : k1[i] = k2[i]
        /\ TextBefore(k1[n], k2[n])

\* The list is ascending by key; records of one key are in load order.  A
\* bucket may hold one record at several places, which then are adjacent
\* as far as this order goes.
InKeyThenLoadOrder(lst) ==
    \A i, j \in 1..Len(lst) :
        i < j =>
            \/ KeyBefore(OrderKey(lst[i]), OrderKey(lst[j]))
            \/ OrderKey(lst[i]) = OrderKey(lst[j]) /\ lst[i].rid <= lst[j].rid

\* C19: every index bucket and the dataset's record list are in ascending
\* order of (Division, SA Name, Month), compared as text with an absent
\* value as the empty text, records of equal keys in load order; and
\* apply_filters with one value for each dimension returns its rows in
\* that order.
C19_BucketsAreInKeyThenLoadOrder ==
    /\ InKeyThenLoadOrder(data_rows)
    /\ \A k \in DOMAIN index : InKeyThenLoadOrder(index[k])
    /\ (/\ Called("apply_filters")
        /\ Len(parse_sel(call.month)) = 1
        /\ Len(parse_sel(call.division)) = 1
        /\ Len(parse_sel(call.sa_name)) = 1)
           => InKeyThenLoadOrder(call.ret.rows)

\* The record loaded second has no Division and stands before the record
\* loaded first, in the record list and in the rows that apply_filters
\* returns for one month.
C19_Witness ==
    /\ Called("apply_filters")
    /\ call.month = <<"M","A","Y">>
    /\ call.division = All
    /\ call.sa_name = All
    /\ Len(data_rows) = 2
    /\ data_rows[1].rid = 2
    /\ data_rows[1].Division = None
    /\ data_rows[2].Division = Ab
    /\ call.ret.rows = data_rows

----------------------------------------------------------------------------
(* C20 *)

\* "all" is among the selected months
AllAmong(months) ==
    \E i \in 1..Len(months) : key_norm(months[i]) = all

\* The record's Month is one of the selected months
MonthSelected(months, r) ==
    \E i \in 1..Len(months) : key_norm(months[i]) = key_norm(r.Month)

\* The non-empty Division values of the records of the selected months, of
\* all records when "all" is among them
DivisionsOf(months) ==
    {data_rows[i].Division :
        i \in {j \in 1..Len(data_rows) :
                  /\ AsText(data_rows[j].Division) # <<>>
                  /\ AllAmong(months) \/ MonthSelected(months, data_rows[j])}}

\* The list holds exactly the texts of S, each once, in ascending order.
AscendingListOf(lst, S) ==
    /\ Range(lst) = S
    /\ \A i, j \in 1..Len(lst) : i < j => TextBefore(lst[i], lst[j])

\* C20: the divisions that get_filters returns are a function of the month
\* selection alone: none when it is "__NONE__"; else the non-empty
\* Division values of the records of the selected months, of all records
\* when "all" is among them; in ascending order, each once, whatever the
\* division selection is.
C20_DivisionsFollowTheMonthSelection ==
    (Called("get_filters") /\ ~call.ret.raised) =>
        IF strip(call.month) = NONE_SENTINEL
        THEN call.ret.divisions = <<>>
        ELSE AscendingListOf(call.ret.divisions,
                             DivisionsOf(parse_sel(call.month)))

\* April holds a record of division Ab and May one of division aB; the
\* selection of May with no division selected returns aB alone.
C20_Witness ==
    /\ Called("get_filters")
    /\ call.month = <<"M","A","Y">>
    /\ call.division = NONE_SENTINEL
    /\ \E i, j \in 1..Len(data_rows) :
          /\ data_rows[i].Month = <<"A","p","r">> /\ data_rows[i].Division = Ab
          /\ data_rows[j].Month = <<"M","a","y">> /\ data_rows[j].Division = aB
    /\ call.ret.divisions = <<aB>>

----------------------------------------------------------------------------
(* C21 *)

\* The record has a Division, and it is one of the selected divisions
DivisionSelected(divs, r) ==
    /\ AsText(r.Division) # <<>>
    /\ \E i \in 1..Len(divs) : key_norm(divs[i]) = key_norm(r.Division)

\* The record counts for the advisors of the selected months and divisions:
\* any record when "all" is among both; for "all" months the records of
\* the selected divisions; for concrete months the records of these months
\* that have a Division, of the selected divisions unless "all" is among
\* them.
CountsForAdvisors(months, divs, r) ==
    IF AllAmong(months)
    THEN AllAmong(divs) \/ DivisionSelected(divs, r)
    ELSE /\ MonthSelected(months, r)
         /\ AsText(r.Division) # <<>>
         /\ AllAmong(divs) \/ DivisionSelected(divs, r)

\* The SA Names of the records that count
AdvisorsOf(months, divs) ==
    {data_rows[i].SA_Name :
        i \in {j \in 1..Len(data_rows) :
                  /\ AsText(data_rows[j].SA_Name) # <<>>
                  /\ CountsForAdvisors(months, divs, data_rows[j])}}

\* C21: the advisors that get_filters returns are none when the month or
\* the division selection is "__NONE__"; else they are the SA Names of the
\* membership sets of the selected months, over all divisions or over the
\* selected ones, for "all" months the SA Names of the records of the
\* selected divisions, and for "all" months and divisions all SA Names; in
\* ascending order, each once.
C21_AdvisorsFollowMonthsAndDivisions ==
    (Called("get_filters") /\ ~call.ret.raised) =>
        IF \/ strip(call.month) = NONE_SENTINEL
           \/ strip(call.division) = NONE_SENTINEL
        THEN call.ret.sa_names = <<>>
        ELSE AscendingListOf(call.ret.sa_names,
                             AdvisorsOf(parse_sel(call.month),
                                        parse_sel(call.division)))

\* May holds the advisor "Xy" of division Ab and the advisor "All" of no
\* division; the selection of May and all divisions returns "Xy" alone.
C21_Witness ==
    /\ Called("get_filters")
    /\ call.month = <<"M","A","Y">>
    /\ call.division = All
    /\ Len(data_rows) = 2
    /\ \E i, j \in 1..2 :
          /\ data_rows[i].Division = Ab /\ data_rows[i].SA_Name = Xy
          /\ data_rows[j].Division = None /\ data_rows[j].SA_Name = All
    /\ \A i \in 1..2 : data_rows[i].Month = May
    /\ call.ret.sa_names = <<Xy>>

----------------------------------------------------------------------------
(* C22 *)

\* The data rows of the kept workbook that the loader reads, as pairs of
\* the sheet's and the row's position: the rows under the header row of
\* the sheets that name a month
DataRowsRead ==
    {p \in (1..Len(workbook.sheets)) \X (2..2) :
        /\ MonthsNamed(workbook.sheets[p[1]].name) # {}
        /\ Len(workbook.sheets[p[1]].rows) >= p[2]}

\* The cell of a data row under the column of FullHeader named h
CellUnder(row, h) ==
    row[CHOOSE i \in 1..Len(FullHeader) : FullHeader[i] = StrCell(h)]

\* The row has no SA Name and no Division as text, and no Links Triggered,
\* Response, NPS and OSAT as numbers.
RowIsNoise(row) ==
    /\ s(CellUnder(row, <<"S","A"," ","N","a","m","e">>)) = None
    /\ s(CellUnder(row, <<"D","i","v","i","s","i","o","n">>)) = None
    /\ to_float(CellUnder(row, <<"L","i","n","k","s"," ","T","r","i","g","g","e","r","e","d">>)) = None
    /\ to_float(CellUnder(row, <<"R","e","s","p","o","n","s","e">>)) = None
    /\ to_float(CellUnder(row, <<"N","P","S">>)) = None
    /\ to_float(CellUnder(row, <<"O","S","A","T">>)) = None

\* One of the six fields of the record is present.
HasOneOfSix(r) ==
    \/ AsText(r.SA_Name) # <<>>
    \/ AsText(r.Division) # <<>>
    \/ r.Links_Triggered # None
    \/ r.Response # None
    \/ r.NPS # None
    \/ r.OSAT # None

\* C22: the loader drops a data row exactly when its SA Name, Division,
\* Links Triggered, Response, NPS and OSAT are all absent, whatever its
\* Mile id, Concern Count and CC/1000 are: the records are as many as the
\* rows read that are not such rows, and each record has one of the six
\* fields.
C22_NoiseRowsAndOnlyTheyAreDropped ==
    Built =>
        /\ load_error = None
        /\ Len(data_rows) =
              Cardinality({p \in DataRowsRead :
                  ~RowIsNoise(workbook.sheets[p[1]].rows[p[2]])})
        /\ \A r \in Rows : HasOneOfSix(r)

\* The row of sheet "Apr" has a 0 in Links Triggered and nothing else and
\* is kept; the row of sheet "april" has a Mile id, a Concern Count and a
\* CC/1000 only and is dropped.
C22_Witness ==
    /\ Built
    /\ Len(workbook.sheets) = 2
    /\ workbook.sheets[2].name = <<"a","p","r","i","l">>
    /\ workbook.sheets[1].rows[2] =
          <<NoneCell, NoneCell, NoneCell, IntCell(0), NoneCell, NoneCell,
            NoneCell, NoneCell, NoneCell>>
    /\ Len(data_rows) = 1
    /\ data_rows[1].Links_Triggered = Float(0)
    /\ data_rows[1].Concern_Count = None

----------------------------------------------------------------------------
(* C23 *)

\* The months that the names of the kept workbook's sheets spell
MonthsOfSheets ==
    UNION {MonthsNamed(workbook.sheets[k].name) :
              k \in 1..Len(workbook.sheets)}

\* C23: after a load without error, available_months lists exactly the
\* months that the sheet names spell, each once and in the order of
\* MONTH_ORDER, whether or not the sheet has a header row or gives a
\* record; each record's Month is one of them.
C23_AvailableMonthsAreThoseOfTheSheets ==
    (Built /\ load_error = None) =>
        /\ Range(available_months) = MonthsOfSheets
        /\ FiscalOrder(available_months)
        /\ \A r \in Rows : r.Month \in Range(available_months)

\* The first sheet is "MAR" with a data row, the second "April-Summary"
\* without any row: April is listed, in front of March, and the one record
\* is of March.
C23_Witness ==
    /\ Built
    /\ Len(workbook.sheets) = 2
    /\ workbook.sheets[1].name = <<"M","A","R">>
    /\ workbook.sheets[2].name = <<"A","p","r","i","l","-","S","u","m","m","a","r","y">>
    /\ workbook.sheets[2].rows = <<>>
    /\ available_months = <<Apr, <<"M","a","r">>>>
    /\ Len(data_rows) = 1
    /\ data_rows[1].Month = <<"M","a","r">>

----------------------------------------------------------------------------
(* C24 *)

\* The SA Names present among the rows
AdvisorsAmong(rows) ==
    {rows[i].SA_Name :
        i \in {j \in 1..Len(rows) : AsText(rows[j].SA_Name) # <<>>}}

\* C24: for a month and a division selection other than "__NONE__", the
\* advisors that get_filters returns are the SA Names present among the
\* rows that apply_filters returns for these selections and the advisor
\* selection "All".
C24_AdvisorsOfferedAreThoseOfTheRows ==
    (/\ Called("get_filters")
     /\ ~call.ret.raised
     /\ strip(call.month) # NONE_SENTINEL
     /\ strip(call.division) # NONE_SENTINEL)
    => Range(call.ret.sa_names) =
          AdvisorsAmong(apply_filters(index, call.month, call.division,
                                      All).out)

----------------------------------------------------------------------------
(* C25 *)

\* The rows are one at least, and the field f of each of them is the text
\* t in some letter case.
RowsOfOnly(rows, f, t) ==
    /\ rows # <<>>
    /\ \A i \in 1..Len(rows) : lower(AsText(rows[i][f])) = lower(t)

\* C25: each division and each advisor that get_filters returns, passed
\* unchanged as the division or the advisor selection of apply_filters
\* with "All" for the other selections, selects one record at least and
\* only records of that Division or SA Name.
C25_EachOptionSelectsItsRecords ==
    (Called("get_filters") /\ ~call.ret.raised) =>
        /\ \A i \in 1..Len(call.ret.divisions) :
              RowsOfOnly(apply_filters(index, All, call.ret.divisions[i],
                                       All).out,
                         "Division", call.ret.divisions[i])
        /\ \A i \in 1..Len(call.ret.sa_names) :
              RowsOfOnly(apply_filters(index, All, All,
                                       call.ret.sa_names[i]).out,
                         "SA_Name", call.ret.sa_names[i])

----------------------------------------------------------------------------
(* C26 *)

\* The header rows of the kept workbook's sheets that the loader reads
HeadersRead ==
    {workbook.sheets[k].rows[1] :
        k \in {j \in 1..Len(workbook.sheets) :
                  /\ MonthsNamed(workbook.sheets[j].name) # {}
                  /\ workbook.sheets[j].rows # <<>>}}

\* The header cell names the advisor: its text holds "advisor", or is "sa"
\* alone or in front of a blank or "_".
NamesAdvisor(h) ==
    /\ h.kind = "str"
    /\ \/ contains(lower(h.text), <<"a","d","v","i","s","o","r">>)
       \/ lower(strip(h.text)) = <<"s","a">>
       \/ /\ Len(strip(h.text)) > 2
          /\ SubSeq(lower(strip(h.text)), 1, 2) = <<"s","a">>
          /\ strip(h.text)[3] \in {" ", "_"}

\* The header cell names the OSAT: "OSAT" or "Overall Satisfaction"
NamesOsat(h) ==
    /\ h.kind = "str"
    /\ lower(strip(h.text)) \in {<<"o","s","a","t">>, <<"o","v","e","r","a","l","l"," ","s","a","t","i","s","f","a","c","t","i","o","n">>}

\* C26: on each sheet the loader reads, no two of the nine fields are
\* resolved to one column; on a workbook of one sheet whose header row
\* has an OSAT header and no advisor header, the advisor's column is not
\* resolved and no record has an SA Name.
C26_FieldsResolveToDifferentColumns ==
    Built =>
        /\ \A header \in HeadersRead :
              \A c1, c2 \in DOMAIN ColumnTokens :
                  (c1 # c2 /\ resolve_columns(header)[c1] # NoCol)
                  => resolve_columns(header)[c1] # resolve_columns(header)[c2]
        /\ \A header \in HeadersRead :
              (/\ Len(workbook.sheets) = 1
               /\ \E i \in 1..Len(header) : NamesOsat(header[i])
               /\ \A i \in 1..Len(header) : ~NamesAdvisor(header[i]))
              => /\ resolve_columns(header)["c_sa"] = NoCol
                 /\ \A r \in Rows : r.SA_Name = None

----------------------------------------------------------------------------
(* C27, C28: the filter controls of the page *)

\* The rows of the whole dataset, as /api/data answers "All", "All", "All".
FullRecordSet == api_data(Self, All, All, All).rows

\* C27: when the Reset handler has run to its end, its loadFilters and its
\* refresh completed, the data request carried month "All", division "All"
\* and sa_name "All", and the rows on display are the full record set of
\* the dataset; whatever toggles, "All / Deselect" clicks and reloads came
\* before.
C27_ResetSendsAllAndShowsEveryRecord ==
    (ui.handler = "reset" /\ ~ui.thrown) =>
        /\ ui.sent = <<All, All, All>>
        /\ ui.allRows = FullRecordSet

\* C28: when init has run on a dataset that loaded, its data request, the
\* first of the page, carried month "All", division "All" and sa_name
\* "All"; and a hidden input holds "__NONE__" only once the user has
\* deselected options.
C28_InitSendsAllAndNoneOnlyAfterDeselection ==
    /\ (ui.handler = "init" /\ ~Truthy(load_error)) =>
           ui.sent = <<All, All, All>>
    /\ (ui.month = NONE_SENTINEL \/ ui.division = NONE_SENTINEL) =>
           ui.deselected

====
